---- MODULE Spec2Model ----
(***************************************************************************)
(* gomigratex: the migration planner (internal/migrator/planner.go), the   *)
(* ledger storage (internal/migrator/storage.go), the runner (ApplyUp,     *)
(* ApplyDown, ForceBaseline), the MySQL advisory lock and the CLI's run()  *)
(* that strings them together, as a state machine of CLI processes that    *)
(* share one database.                                                     *)
(*                                                                         *)
(* Strings that the code compares or concatenates (versions, names, keys)  *)
(* are sequences of character codes; checksums are hex strings whose case  *)
(* matters to strings.EqualFold.  Row.AppliedAt and Row.DurationMS are     *)
(* wall-clock values that no modelled decision reads; they are left out    *)
(* of the rows.                                                            *)
(***************************************************************************)
EXTENDS Integers, Sequences, FiniteSets, TLC

VARIABLES
    source,       \* the migrations directory: complete pairs with the checksum of the up file
    ledger,       \* the rows of the schema_migrations table
    schema,       \* per key: forward commits in effect since the last backward commit (capped at 2)
    dbLock,       \* the session that holds GET_LOCK's named lock, or "none"
    dbFaults,     \* whether the database may fail a statement that is no migration script
    pc,           \* per process: where run() stands
    inv,          \* per process: the command line of the invocation
    held,         \* per process: lock.MySQL.held
    plan,         \* per process: the *Plan DiscoverAndPlan returned
    loc,          \* per process: locals of ApplyUp / ApplyDown / ForceBaseline / repairChecksums
    ret,          \* per process: what the command returned and the exit code run() returns
    log,          \* per process: the database operations this invocation performed
    runs,         \* invocations started so far
    edits,        \* edits of the migrations directory so far
    planOut,      \* the result of the planner applied to (source, ledger) in SpecPlan
    reverted,     \* history: the keys whose ledger row an ApplyDown has deleted
    files,        \* the directory entries besides the two files of each pair of source, in listing order
    scanOut,      \* the result of the scanner applied to the directory listing in SpecScan
    conn,         \* per process: lock.MySQL.conn, "nil", "open" or "closed"
    events,       \* per process: the progress events ApplyUp has delivered
    lockKey,      \* per lock handle: lock.MySQL.key, in SpecLock
    named,        \* the server's named locks by key: the handle whose session holds it, in SpecLock
    config        \* the settings of an invocation and the Config run() derives, in SpecConfig

vars == <<source, ledger, schema, dbLock, dbFaults, pc, inv, held, plan, loc, ret,
          log, runs, edits, planOut, reverted, files, scanOut, conn, events, lockKey, named,
          config>>

\* the state of the specifications of the lock handle and of the configuration
libVars == <<lockKey, named, config>>

(***************************************************************************)
(* Bounds of the model.                                                    *)
(***************************************************************************)
MaxRuns == 3
MaxEdits == 1
MaxRemovals == 1
MaxListing == 4
MaxAdds == 2
MaxBreaks == 1

\* calls made on the lock handles as a library
MaxCalls == 4

(***************************************************************************)
(* Program constants.                                                      *)
(***************************************************************************)
exitOK == 0
exitDrift == 2
exitLocked == 3
exitFail == 4
exitPlanError == 5
AllRows == 999999999
Colon == 58

Procs == {"p1", "p2"}

\* "1_a", "1_b", "2_a": two pairs share a version, so the name decides their order
PairA == [version |-> <<49>>, name |-> <<97>>]
PairB == [version |-> <<49>>, name |-> <<98>>]
PairC == [version |-> <<50>>, name |-> <<97>>]
PairUniverse == {PairA, PairB, PairC}

FileSums == {"aa", "bb"}
LedgerSums == {"aa", "bb", "AA"}
Statuses == {"success", "failed"}

(***************************************************************************)
(* Strings.                                                                *)
(***************************************************************************)
RECURSIVE StrLess(_, _)
\* Go's < on strings: bytewise lexicographic
StrLess(a, b) ==
    IF a = <<>> THEN b # <<>>
    ELSE IF b = <<>> THEN FALSE
    ELSE IF Head(a) # Head(b) THEN Head(a) < Head(b)
    ELSE StrLess(Tail(a), Tail(b))

ToLower(s) == IF s = "AA" THEN "aa" ELSE IF s = "BB" THEN "bb" ELSE s

\* strings.EqualFold on two hex digests
EqualFold(a, b) == ToLower(a) = ToLower(b)

\* keyOf / Key / the inline version + ":" + name
keyOf(version, name) == version \o <<Colon>> \o name

KeyOfRec(r) == keyOf(r.version, r.name)

RECURSIVE SplitVersion(_)
\* strings.SplitN(key, ":", 2)[0]
SplitVersion(k) ==
    IF k = <<>> \/ Head(k) = Colon THEN <<>>
    ELSE <<Head(k)>> \o SplitVersion(Tail(k))

\* the less function of SortKeys, comparing the keys whole
KeyLessWholeKey(ki, kj) == StrLess(ki, kj)

\* the less function of SortKeys
KeyLess(ki, kj) ==
    LET vi == SplitVersion(ki)
        vj == SplitVersion(kj)
    IN  IF vi = vj THEN StrLess(ki, kj) ELSE StrLess(vi, vj)

RECURSIVE SortKeys(_)
SortKeys(ks) ==
    IF ks = {} THEN <<>>
    ELSE LET m == CHOOSE x \in ks : \A y \in ks \ {x} : ~KeyLess(y, x)
         IN  <<m>> \o SortKeys(ks \ {m})

(***************************************************************************)
(* Scanner.                                                                *)
(***************************************************************************)
\* a directory entry as scan reads it: what fileRe captures of its name.  An entry
\* that is a directory, or whose name fileRe does not match, has typ "none".
Entry(version, name, typ) == [version |-> version, name |-> name, typ |-> typ]

\* !e.IsDir() and fileRe.FindStringSubmatch(e.Name()) != nil
Matches(e) == e.typ \in {"up", "down"}

\* the map out of scan: the keys whose Pair has its UpPath set, and its DownPath set
NoHalves == [up |-> {}, down |-> {}]

\* the duplicate test of scan, never finding the path set
IsDuplicateNever(have, key) == FALSE

\* p.UpPath != "" (p.DownPath != "") for the Pair of key
IsDuplicate(have, key) == key \in have

RECURSIVE ScanLoop(_, _, _)
\* the loop of scan over the entries, which returns at the first duplicate
ScanLoop(entries, i, out) ==
    IF i > Len(entries) THEN [err |-> "none", out |-> out]
    ELSE LET e == entries[i]
             key == keyOf(e.version, e.name)
         IN  IF ~Matches(e) THEN ScanLoop(entries, i + 1, out)
             ELSE IF IsDuplicate(out[e.typ], key) THEN [err |-> "duplicate", out |-> out]
             ELSE ScanLoop(entries, i + 1, [out EXCEPT ![e.typ] = @ \cup {key}])

\* the validation of scan, accepting every map
MissingPairNever(out) == FALSE

\* some Pair of the map has no UpPath or no DownPath
MissingPair(out) == out.up # out.down

\* fsutil.scan: the keys of the pairs, or the error
scan(entries) ==
    LET r == ScanLoop(entries, 1, NoHalves)
    IN  IF r.err # "none" THEN [err |-> r.err, pairs |-> {}]
        ELSE IF MissingPair(r.out) THEN [err |-> "missing", pairs |-> {}]
        ELSE [err |-> "none", pairs |-> r.out.up \cup r.out.down]

(***************************************************************************)
(* Storage.                                                                *)
(***************************************************************************)
Row(fp, by, status, order) ==
    [version |-> fp.version, name |-> fp.name, checksum |-> fp.checksum,
     by |-> by, status |-> status, order |-> order]

\* Storage.GetAll: the map from key to row
GetAll(l) ==
    [k \in {KeyOfRec(r) : r \in l} |-> CHOOSE r \in l : KeyOfRec(r) = k]

\* the maximum execution order, were the table always taken to be empty
MaxExecutionOrderOfEmpty(l) == 0

\* Storage.MaxExecutionOrder: COALESCE(MAX(execution_order), 0)
MaxExecutionOrder(l) ==
    IF l = {} THEN 0
    ELSE LET r == CHOOSE x \in l : \A y \in l : y.order <= x.order IN r.order

\* INSERT ... : the plain insert, without the unique key's update
UpsertAsInsert(l, r) == l \cup {r}

\* Storage.Upsert writing nothing
UpsertDropped(l, row) == l

\* Storage.Upsert: INSERT ... ON DUPLICATE KEY UPDATE under UNIQUE KEY (version, name)
Upsert(l, r) == {x \in l : KeyOfRec(x) # KeyOfRec(r)} \cup {r}

\* a DELETE that removes no row
DeleteNothing(l, version, name) == l

\* Storage.Delete
Delete(l, version, name) == {x \in l : ~(x.version = version /\ x.name = name)}

RECURSIVE TopRows(_, _)
TopRows(S, n) ==
    IF n = 0 \/ S = {} THEN <<>>
    ELSE LET r == CHOOSE x \in S : \A y \in S : y.order <= x.order
         IN  <<r>> \o TopRows(S \ {r}, n - 1)

\* the query of LastApplied without its WHERE status='success'
LastAppliedAnyStatus(l, n) == TopRows(l, n)

\* Runner.LastApplied: WHERE status='success' ORDER BY execution_order DESC LIMIT n
LastApplied(l, n) == TopRows({r \in l : r.status = "success"}, n)

(***************************************************************************)
(* Planner.                                                                *)
(***************************************************************************)
NoPlan == [pending |-> <<>>, applied |-> <<>>, all |-> <<>>]

\* the scanned pairs of the directory, by key, read and checksummed in SortKeys order
Discover(src) ==
    LET pairs == [k \in {KeyOfRec(f) : f \in src} |-> CHOOSE f \in src : KeyOfRec(f) = k]
        keys == SortKeys(DOMAIN pairs)
    IN  [i \in 1..Len(keys) |-> pairs[keys[i]]]

\* the drift test of the plan loop, compared exactly instead of with EqualFold
IsDriftExact(row, fp) == row.status = "success" /\ row.checksum # fp.checksum

\* the drift test of the plan loop
IsDrift(row, fp) == row.status = "success" /\ ~EqualFold(row.checksum, fp.checksum)

\* the retry test of the plan loop, never retrying
IsRetryNever(row) == FALSE

\* the retry test of the plan loop
IsRetry(row) == row.status = "failed"

RECURSIVE PlanLoop(_, _, _, _)
\* the loop over all that builds pending, or stops at the first drifted pair
PlanLoop(all, applied, i, pending) ==
    IF i > Len(all) THEN [err |-> "none", pending |-> pending]
    ELSE LET fp == all[i]
             k == keyOf(fp.version, fp.name)
         IN  IF k \in DOMAIN applied
             THEN IF IsDrift(applied[k], fp)
                  THEN [err |-> "drift", pending |-> <<>>]
                  ELSE IF IsRetry(applied[k])
                       THEN PlanLoop(all, applied, i + 1, Append(pending, fp))
                       ELSE PlanLoop(all, applied, i + 1, pending)
             ELSE PlanLoop(all, applied, i + 1, Append(pending, fp))

\* DiscoverAndPlan, given that the scan and the ledger read succeeded
DiscoverAndPlan(src, l) ==
    LET all == Discover(src)
        applied == GetAll(l)
        res == PlanLoop(all, applied, 1, <<>>)
    IN  IF res.err = "drift" THEN [err |-> "drift", plan |-> NoPlan]
        ELSE [err |-> "none",
              plan |-> [pending |-> res.pending, applied |-> applied, all |-> all]]

(***************************************************************************)
(* The advisory lock.                                                      *)
(***************************************************************************)
\* SELECT GET_LOCK(key, timeout) asked by the session of p: 1 granted, 0 timed out
\* (the lock stayed with another session), -1 NULL or a failed statement
GetLock(owner, p, faults) ==
    (IF owner = "none" \/ owner = p THEN {1} ELSE {0}) \cup (IF faults THEN {-1} ELSE {})

\* Acquire's test of the answer, with only got.Valid looked at
AcquireGrantedIfValid(got) == got >= 0

\* Acquire's test of the answer: !got.Valid || got.Int64 != 1 is the failure
AcquireGranted(got) == got = 1

\* the exit code of a failed Acquire, were it the general failure code
LockFailCodeAsFail == exitFail

\* the exit code run() returns when Acquire fails
LockFailCode == exitLocked

\* the lock after the session of p ends, were it never released
ReleaseLockKept(owner, p) == owner

\* SELECT RELEASE_LOCK(key) and conn.Close() by the session of p
ReleaseLock(owner, p) == IF owner = p THEN "none" ELSE owner

\* "gomigratex"
KeyPrefix == <<103, 111, 109, 105, 103, 114, 97, 116, 101, 120>>

\* the lock name, were the ledger table left out of it
KeyForDatabase(database, table) == KeyPrefix \o <<Colon>> \o database

\* fmt.Sprintf("gomigratex:%s:%s", database, table)
KeyFor(database, table) == KeyPrefix \o <<Colon>> \o database \o <<Colon>> \o table

Slash == 47

Question == 63

\* strings.LastIndex and strings.Index for one byte, counted from 1, 0 when absent
LastIndex(s, c) ==
    IF \E i \in 1..Len(s) : s[i] = c
    THEN CHOOSE i \in 1..Len(s) : s[i] = c /\ \A j \in (i + 1)..Len(s) : s[j] # c
    ELSE 0

Index(s, c) ==
    IF \E i \in 1..Len(s) : s[i] = c
    THEN CHOOSE i \in 1..Len(s) : s[i] = c /\ \A j \in 1..(i - 1) : s[j] # c
    ELSE 0

\* the text after the last "/" up to the first "?", "db" when nothing follows a "/"
extractDBName(dsn) ==
    LET i == LastIndex(dsn, Slash)
    IN  IF i = 0 \/ i = Len(dsn)
        THEN <<100, 98>>
        ELSE LET rest == SubSeq(dsn, i + 1, Len(dsn))
                 j == Index(rest, Question)
             IN  IF j # 0 THEN SubSeq(rest, 1, j - 1) ELSE rest

\* "u@/<database><params>": a DSN that names a database
Dsn(database, params) == <<117, 64, Slash>> \o database \o params

\* the databases "d" and "e", the ledger tables "t" and "u", no parameters or "?x"
DbNames == {<<100>>, <<101>>}

TableNames == {<<116>>, <<117>>}

DsnParams == {<<>>, <<Question, 120>>}

\* cfg.DSN, cfg.MigrationsTable and the lockKey run() computes from them
LockSetting(database, params, table) ==
    [database |-> database,
     dsn |-> Dsn(database, params),
     table |-> table,
     key |-> KeyFor(extractDBName(Dsn(database, params)), table)]

LockSettings == {LockSetting(d, q, t) : d \in DbNames, q \in DsnParams, t \in TableNames}

LockKeys == {c.key : c \in LockSettings}

\* if m.held, never taken
HandleHeldNever(p) == FALSE

\* if m.held
HandleHeld(p) == held[p]

\* what Release returns, were the answer of RELEASE_LOCK not discarded
ReleaseResultOfScan(released, closed) == IF released /\ closed THEN "none" ELSE "release"

\* what Release returns: _ = row.Scan(&rel), then return m.conn.Close()
ReleaseResult(released, closed) == IF closed THEN "none" ELSE "close"

(***************************************************************************)
(* The configuration of an invocation.  Directory and table names are      *)
(* strings, "" being Go's empty string; the value of LOCK_TIMEOUT_SEC is   *)
(* the bytes of the variable.                                              *)
(***************************************************************************)
\* config.Default
Default == [Dir |-> "", LockTimeoutSec |-> 30, MigrationsTable |-> "schema_migrations"]

\* a key left out of the YAML file, a flag left off the command line
Absent == [given |-> FALSE, value |-> ""]

AbsentInt == [given |-> FALSE, value |-> 0]

Given(v) == [given |-> TRUE, value |-> v]

\* config.LoadYAML: yaml.Unmarshal over Default() sets the keys the file has
LoadYAML(yaml) ==
    [Dir |-> IF yaml.dir.given THEN yaml.dir.value ELSE Default.Dir,
     LockTimeoutSec |-> IF yaml.timeout.given THEN yaml.timeout.value
                        ELSE Default.LockTimeoutSec,
     MigrationsTable |-> IF yaml.table.given THEN yaml.table.value
                         ELSE Default.MigrationsTable]

IsDigit(c) == c \in 48..57

RECURSIVE DigitsValue(_)
DigitsValue(s) ==
    IF s = <<>> THEN 0 ELSE 10 * DigitsValue(SubSeq(s, 1, Len(s) - 1)) + (s[Len(s)] - 48)

\* strconv.Atoi on unsigned decimal text: err is set on anything else
Atoi(s) ==
    IF s # <<>> /\ \A i \in 1..Len(s) : IsDigit(s[i])
    THEN [err |-> FALSE, i |-> DigitsValue(s)]
    ELSE [err |-> TRUE, i |-> 0]

\* config.MergeEnv
MergeEnv(cfg, env) ==
    [Dir |-> IF env.dir # "" THEN env.dir ELSE cfg.Dir,
     LockTimeoutSec |-> IF env.timeout # <<>> /\ ~Atoi(env.timeout).err
                        THEN Atoi(env.timeout).i ELSE cfg.LockTimeoutSec,
     MigrationsTable |-> IF env.table # "" THEN env.table ELSE cfg.MigrationsTable]

\* the value flag.Parse leaves in a flag's variable: its default unless given
FlagValue(flag, default) == IF flag.given THEN flag.value ELSE default

\* the values of --dir, --lock-timeout and --table after global.Parse
ParseFlags(flags) ==
    [dir |-> FlagValue(flags.dir, "./migrations"),
     lockTimeout |-> FlagValue(flags.timeout, 30),
     table |-> FlagValue(flags.table, "schema_migrations")]

\* run(): override with flags if provided
MergeFlags(cfg, parsed) ==
    [Dir |-> IF parsed.dir # "" THEN parsed.dir ELSE cfg.Dir,
     LockTimeoutSec |-> parsed.lockTimeout,
     MigrationsTable |-> IF parsed.table # "" THEN parsed.table ELSE cfg.MigrationsTable]

\* run(): cfg after LoadYAML, MergeEnv and the flags
LoadConfig(given) ==
    MergeFlags(MergeEnv(LoadYAML(given.yaml), given.env), ParseFlags(given.flags))

\* Config.LockTimeout, in seconds
LockTimeout(cfg) == IF cfg.LockTimeoutSec <= 0 THEN 30 ELSE cfg.LockTimeoutSec

\* the command lines, environments and YAML files of the inputs: each setting
\* given or not in each place, with a value of its own; LOCK_TIMEOUT_SEC is
\* unset, "20" or "x"
GivenSettings ==
    [flags : [dir : {Absent, Given("./f")}, timeout : {AbsentInt, Given(5)},
              table : {Absent, Given("tf")}],
     env : [dir : {"", "./e"}, timeout : {<<>>, <<50, 48>>, <<120>>}, table : {"", "te"}],
     yaml : [dir : {Absent, Given("./y")}, timeout : {AbsentInt, Given(10)},
             table : {Absent, Given("ty")}]]

NoGiven ==
    [flags |-> [dir |-> Absent, timeout |-> AbsentInt, table |-> Absent],
     env |-> [dir |-> "", timeout |-> <<>>, table |-> ""],
     yaml |-> [dir |-> Absent, timeout |-> AbsentInt, table |-> Absent]]

NoConfig == [given |-> NoGiven, cfg |-> Default, merged |-> FALSE]

(***************************************************************************)
(* The CLI processes.                                                      *)
(***************************************************************************)
Versions == {p.version : p \in PairUniverse}

NoInv == [name |-> "none", dry |-> FALSE, n |-> 0, version |-> <<>>, fake |-> FALSE]

Invocations ==
    {[NoInv EXCEPT !.name = "up", !.dry = d] : d \in BOOLEAN}
    \cup {[NoInv EXCEPT !.name = "down", !.dry = d, !.n = n] : d \in BOOLEAN, n \in {1, 2, AllRows}}
    \cup {[NoInv EXCEPT !.name = "status"]}
    \cup {[NoInv EXCEPT !.name = "repair", !.dry = d] : d \in BOOLEAN}
    \cup {[NoInv EXCEPT !.name = "force", !.dry = d, !.version = v, !.fake = f] :
                d \in BOOLEAN, v \in Versions, f \in BOOLEAN}

NoLoc == [maxOrder |-> 0, i |-> 0, applied |-> <<>>, rows |-> <<>>, changed |-> 0]

NoRet == [code |-> -1, err |-> "none", applied |-> <<>>, nil |-> FALSE, changed |-> 0]

Op(op, key, ok) == [op |-> op, key |-> key, ok |-> ok]

\* a call of the progress hook, were every call tagged "start"
EventAsStart(stage, key) == [stage |-> "start", key |-> key]

\* a call of the progress hook: the stage tag and the change
Event(stage, key) == [stage |-> stage, key |-> key]

\* the outcomes of a statement that is no migration script
Outcomes == IF dbFaults THEN BOOLEAN ELSE {TRUE}

\* the outcomes of one migration transaction: BeginTx, ExecContext, Commit
TxOutcomes == {"ok", "exec", "commit"} \cup (IF dbFaults THEN {"begin"} ELSE {})

Bump(n) == IF n >= 2 THEN 2 ELSE n + 1

\* run() returns code: the command is over, the deferred Release has not run yet
Return(p, code, err, applied, nil, changed) ==
    /\ pc' = [pc EXCEPT ![p] = "done"]
    /\ ret' = [ret EXCEPT ![p] = [code |-> code, err |-> err, applied |-> applied,
                                  nil |-> nil, changed |-> changed]]

\* run() up to and including run.Ensure
RunEnsure(p) ==
    /\ pc[p] = "idle"
    /\ runs < MaxRuns
    /\ runs' = runs + 1
    /\ \E ok \in Outcomes :
        IF ok
        THEN /\ pc' = [pc EXCEPT ![p] = "ensured"]
             /\ ret' = ret
        ELSE Return(p, exitFail, "ensure", <<>>, FALSE, 0)
    /\ UNCHANGED <<source, ledger, schema, dbLock, dbFaults, inv, held, plan, loc, log, edits, planOut, reverted, files, scanOut, conn, events, libVars>>

\* lock.KeyFor, lock.NewMySQL and l.Acquire in run().  Nothing run() does before
\* the plan depends on the command word and its flags, which the switch after the
\* plan reads; the process's command line is drawn here, where it starts to matter.
RunAcquire(p) ==
    /\ pc[p] = "ensured"
    /\ \E got \in GetLock(dbLock, p, dbFaults) :
        IF held[p] \/ AcquireGranted(got)
        THEN /\ held' = [held EXCEPT ![p] = TRUE]
             /\ dbLock' = IF got = 1 THEN p ELSE dbLock
             /\ pc' = [pc EXCEPT ![p] = "locked"]
             /\ ret' = ret
             /\ conn' = [conn EXCEPT ![p] = "open"]
             /\ \E c \in Invocations : inv' = [inv EXCEPT ![p] = c]
        ELSE /\ Return(p, LockFailCode, "lock", <<>>, FALSE, 0)
             /\ conn' = [conn EXCEPT ![p] = "closed"]
             /\ UNCHANGED <<held, dbLock, inv>>
    /\ UNCHANGED <<source, ledger, schema, dbFaults, plan, loc, log, runs, edits, planOut, reverted, files, scanOut, events, libVars>>

\* os.ReadDir of the migrations directory: the down and the up file of every pair
\* of the source, and the other entries
ListDir(src, others) ==
    LET d == Discover(src)
    IN  [i \in 1..(2 * Len(d)) |->
            Entry(d[(i + 1) \div 2].version, d[(i + 1) \div 2].name,
                  IF i % 2 = 1 THEN "down" ELSE "up")] \o others

\* migrator.DiscoverAndPlan in run() and the exit codes of its errors: the scan of
\* the directory comes first, the ledger is read when it succeeded
RunPlan(p) ==
    /\ pc[p] = "locked"
    /\ IF scan(ListDir(source, files)).err # "none"
       THEN Return(p, exitPlanError, "discover", <<>>, FALSE, 0) /\ UNCHANGED <<plan, log>>
       ELSE \E ok \in Outcomes :
            /\ log' = [log EXCEPT ![p] = Append(@, Op("getall", <<>>, ok))]
            /\ IF ~ok
               THEN Return(p, exitPlanError, "plan", <<>>, FALSE, 0) /\ plan' = plan
               ELSE LET res == DiscoverAndPlan(source, ledger)
                    IN  IF res.err = "drift"
                        THEN Return(p, exitDrift, "drift", <<>>, FALSE, 0) /\ plan' = plan
                        ELSE /\ plan' = [plan EXCEPT ![p] = res.plan]
                             /\ pc' = [pc EXCEPT ![p] = "planned"]
                             /\ ret' = ret
    /\ UNCHANGED <<source, ledger, schema, dbLock, dbFaults, inv, held, loc, runs, edits, planOut, reverted, files, scanOut, conn, events, libVars>>

\* case "status"
CmdStatus(p) ==
    /\ pc[p] = "planned"
    /\ inv[p].name = "status"
    /\ Return(p, exitOK, "none", <<>>, FALSE, 0)
    /\ UNCHANGED <<source, ledger, schema, dbLock, dbFaults, inv, held, plan, loc, log, runs,
                   edits, planOut, reverted, files, scanOut, conn, events, libVars>>

(***************************************************************************)
(* Runner.ApplyUp, one database statement per step.                        *)
(***************************************************************************)
\* the row ApplyUp builds for files[i], were maxOrder incremented for the first file only
UpRowFirstOrder(p, status) ==
    Row(plan[p].pending[loc[p].i], p, status, loc[p].maxOrder - loc[p].i + 1)

\* the row ApplyUp builds for files[i]; maxOrder was incremented for it already
UpRow(p, status) ==
    Row(plan[p].pending[loc[p].i], p, status, loc[p].maxOrder)

\* case "up" down to ApplyUp's read of the maximum execution order
UpBegin(p) ==
    /\ pc[p] = "planned"
    /\ inv[p].name = "up"
    /\ IF Len(plan[p].pending) = 0
       THEN /\ Return(p, exitOK, "none", <<>>, FALSE, 0)
            /\ UNCHANGED <<loc, log>>
       ELSE \E ok \in Outcomes :
            /\ log' = [log EXCEPT ![p] = Append(@, Op("maxorder", <<>>, ok))]
            /\ IF ok
               THEN /\ loc' = [loc EXCEPT ![p] = [NoLoc EXCEPT !.maxOrder = MaxExecutionOrder(ledger) + 1,
                                                              !.i = 1]]
                    /\ pc' = [pc EXCEPT ![p] = "upLoop"]
                    /\ ret' = ret
               ELSE /\ Return(p, exitFail, "order", <<>>, TRUE, 0)
                    /\ loc' = loc
    /\ UNCHANGED <<source, ledger, schema, dbLock, dbFaults, inv, held, plan, runs, edits, planOut, reverted, files, scanOut, conn, events, libVars>>

\* ApplyUp's dryRun test, with the flag ignored
IsDryRunIgnored(p) == FALSE

\* ApplyUp's dryRun test
IsDryRun(p) == inv[p].dry

\* the end of one iteration of ApplyUp's loop, returning after the first file
UpContinueReturnsEarly(p, applied) ==
    /\ Return(p, exitOK, "none", applied, FALSE, 0)
    /\ loc' = [loc EXCEPT ![p].applied = applied]

\* the end of one iteration of ApplyUp's loop with the list applied so far
UpContinue(p, applied) ==
    IF loc[p].i = Len(plan[p].pending)
    THEN /\ Return(p, exitOK, "none", applied, FALSE, 0)
         /\ loc' = [loc EXCEPT ![p].applied = applied]
    ELSE /\ loc' = [loc EXCEPT ![p].applied = applied, ![p].i = @ + 1, ![p].maxOrder = @ + 1]
         /\ pc' = [pc EXCEPT ![p] = "upLoop"]
         /\ ret' = ret

\* one iteration up to the end of the migration's transaction
UpExec(p) ==
    /\ pc[p] = "upLoop"
    /\ LET fp == plan[p].pending[loc[p].i]
           k == keyOf(fp.version, fp.name)
       IN  IF IsDryRun(p)
           THEN /\ UpContinue(p, Append(loc[p].applied, UpRow(p, "success")))
                /\ events' = [events EXCEPT ![p] = @ \o <<Event("start", k), Event("success", k)>>]
                /\ UNCHANGED <<schema, log>>
           ELSE \E o \in TxOutcomes :
                /\ log' = [log EXCEPT ![p] = Append(@, Op("execup", k, o = "ok"))]
                /\ schema' = IF o = "ok" THEN [schema EXCEPT ![k] = Bump(@)] ELSE schema
                /\ IF o = "begin"
                   THEN /\ Return(p, exitFail, "begin", <<>>, TRUE, 0)
                        /\ events' = [events EXCEPT ![p] = @ \o <<Event("start", k), Event("error", k)>>]
                   ELSE /\ pc' = [pc EXCEPT ![p] = IF o = "ok" THEN "upCommitted" ELSE "upFailed"]
                        /\ ret' = ret
                        /\ events' = [events EXCEPT ![p] = Append(@, Event("start", k))]
                /\ loc' = loc
    /\ UNCHANGED <<source, ledger, dbLock, dbFaults, inv, held, plan, runs, edits, planOut, reverted, files, scanOut, conn, libVars>>

\* after a failed migration, the loop going on to the next file instead of returning
UpStopAsContinue(p) == UpContinue(p, loc[p].applied)

\* after a failed migration: return applied, err, which run() turns into exitFail
UpStop(p) ==
    /\ Return(p, exitFail, "script", loc[p].applied, FALSE, 0)
    /\ loc' = loc

\* the Upsert of the failed row, its error discarded, and the return of the script's error
UpRecordFailed(p) ==
    /\ pc[p] = "upFailed"
    /\ LET row == UpRow(p, "failed")
       IN  \E ok \in Outcomes :
           /\ log' = [log EXCEPT ![p] = Append(@, Op("upsert", KeyOfRec(row), ok))]
           /\ ledger' = IF ok THEN Upsert(ledger, row) ELSE ledger
           /\ events' = [events EXCEPT ![p] = Append(@, Event("error", KeyOfRec(row)))]
           /\ UpStop(p)
    /\ UNCHANGED <<source, schema, dbLock, dbFaults, inv, held, plan, runs, edits, planOut, reverted, files, scanOut, conn, libVars>>

\* the Upsert of the success row after the commit
UpRecord(p) ==
    /\ pc[p] = "upCommitted"
    /\ LET row == UpRow(p, "success")
       IN  \E ok \in Outcomes :
           /\ log' = [log EXCEPT ![p] = Append(@, Op("upsert", KeyOfRec(row), ok))]
           /\ events' = [events EXCEPT ![p] =
                            Append(@, Event(IF ok THEN "success" ELSE "error", KeyOfRec(row)))]
           /\ IF ok
              THEN /\ ledger' = Upsert(ledger, row)
                   /\ UpContinue(p, Append(loc[p].applied, row))
              ELSE /\ ledger' = ledger
                   /\ Return(p, exitFail, "upsert", loc[p].applied, FALSE, 0)
                   /\ loc' = loc
    /\ UNCHANGED <<source, schema, dbLock, dbFaults, inv, held, plan, runs, edits, planOut, reverted, files, scanOut, conn, libVars>>

\* the deferred l.Release and the process exit
Finish(p) ==
    /\ pc[p] = "done"
    /\ dbLock' = IF held[p] THEN ReleaseLock(dbLock, p) ELSE dbLock
    /\ held' = [held EXCEPT ![p] = FALSE]
    /\ pc' = [pc EXCEPT ![p] = "idle"]
    /\ inv' = [inv EXCEPT ![p] = NoInv]
    /\ plan' = [plan EXCEPT ![p] = NoPlan]
    /\ loc' = [loc EXCEPT ![p] = NoLoc]
    /\ ret' = [ret EXCEPT ![p] = NoRet]
    /\ log' = [log EXCEPT ![p] = <<>>]
    /\ conn' = [conn EXCEPT ![p] = "nil"]
    /\ events' = [events EXCEPT ![p] = <<>>]
    /\ UNCHANGED <<source, ledger, schema, dbFaults, runs, edits, planOut, reverted, files, scanOut, libVars>>

(***************************************************************************)
(* Runner.ApplyDown behind case "down".                                    *)
(***************************************************************************)
\* case "down" down to the LastApplied query
DownBegin(p) ==
    /\ pc[p] = "planned"
    /\ inv[p].name = "down"
    /\ \E ok \in Outcomes :
        /\ log' = [log EXCEPT ![p] = Append(@, Op("lastapplied", <<>>, ok))]
        /\ IF ~ok
           THEN Return(p, exitFail, "query", <<>>, FALSE, 0) /\ loc' = loc
           ELSE LET rows == LastApplied(ledger, inv[p].n)
                IN  IF Len(rows) = 0
                    THEN Return(p, exitOK, "none", <<>>, FALSE, 0) /\ loc' = loc
                    ELSE /\ loc' = [loc EXCEPT ![p] = [NoLoc EXCEPT !.rows = rows, !.i = 1]]
                         /\ pc' = [pc EXCEPT ![p] = "downLoop"]
                         /\ ret' = ret
    /\ UNCHANGED <<source, ledger, schema, dbLock, dbFaults, inv, held, plan, runs, edits, planOut, reverted, files, scanOut, conn, events, libVars>>

\* the end of one iteration of ApplyDown's loop
DownContinue(p) ==
    IF loc[p].i = Len(loc[p].rows)
    THEN Return(p, exitOK, "none", <<>>, FALSE, 0) /\ loc' = loc
    ELSE /\ loc' = [loc EXCEPT ![p].i = @ + 1]
         /\ pc' = [pc EXCEPT ![p] = "downLoop"]
         /\ ret' = ret

\* a lookup in which every key is found
LookupKeysOfAny(all) == {keyOf(pr.version, pr.name) : pr \in PairUniverse}

\* the keys of the lookup run() builds from plan.All
LookupKeys(all) == {keyOf(all[j].version, all[j].name) : j \in 1..Len(all)}

\* after a failed down migration, the loop going on instead of returning
DownStopAsRetry(p, o) ==
    /\ pc' = [pc EXCEPT ![p] = "downLoop"]
    /\ ret' = ret

\* after a failed down migration: return err, which run() turns into exitFail
DownStop(p, o) == Return(p, exitFail, o, <<>>, FALSE, 0)

\* one iteration up to the end of the down migration's transaction
DownExec(p) ==
    /\ pc[p] = "downLoop"
    /\ LET row == loc[p].rows[loc[p].i]
           k == keyOf(row.version, row.name)
       IN  IF k \notin LookupKeys(plan[p].all)
           THEN /\ Return(p, exitFail, "missing", <<>>, FALSE, 0)
                /\ UNCHANGED <<loc, schema, log>>
           ELSE IF inv[p].dry
           THEN DownContinue(p) /\ UNCHANGED <<schema, log>>
           ELSE \E o \in TxOutcomes :
                /\ log' = [log EXCEPT ![p] = Append(@, Op("execdown", k, o = "ok"))]
                /\ loc' = loc
                /\ IF o = "ok"
                   THEN /\ schema' = [schema EXCEPT ![k] = 0]
                        /\ pc' = [pc EXCEPT ![p] = "downCommitted"]
                        /\ ret' = ret
                   ELSE /\ schema' = schema
                        /\ DownStop(p, o)
    /\ UNCHANGED <<source, ledger, dbLock, dbFaults, inv, held, plan, runs, edits, planOut, reverted, files, scanOut, conn, events, libVars>>

\* the Delete of the row after the down migration's commit
DownDelete(p) ==
    /\ pc[p] = "downCommitted"
    /\ LET row == loc[p].rows[loc[p].i]
       IN  \E ok \in Outcomes :
           /\ log' = [log EXCEPT ![p] = Append(@, Op("delete", KeyOfRec(row), ok))]
           /\ IF ok
              THEN /\ ledger' = Delete(ledger, row.version, row.name)
                   /\ reverted' = reverted \cup {KeyOfRec(row)}
                   /\ DownContinue(p)
              ELSE /\ UNCHANGED <<ledger, reverted>>
                   /\ Return(p, exitFail, "delete", <<>>, FALSE, 0)
                   /\ loc' = loc
    /\ UNCHANGED <<source, schema, dbLock, dbFaults, inv, held, plan, runs, edits, planOut, files, scanOut, conn, events, libVars>>

(***************************************************************************)
(* Runner.ForceBaseline behind case "force".                               *)
(***************************************************************************)
\* the loop of ForceBaseline without its skip of the versions above the given one
ForceNextOfAll(all, version, i) == i

RECURSIVE ForceNext(_, _, _)
\* the next index from i whose pair the loop does not skip (fp.Version > version)
ForceNext(all, version, i) ==
    IF i > Len(all) THEN i
    ELSE IF StrLess(version, all[i].version) THEN ForceNext(all, version, i + 1)
    ELSE i

ForceRow(p) == Row(plan[p].all[loc[p].i], p, "success", loc[p].maxOrder)

\* case "force" down to ForceBaseline's read of the maximum execution order
ForceBegin(p) ==
    /\ pc[p] = "planned"
    /\ inv[p].name = "force"
    /\ \E ok \in Outcomes :
        /\ log' = [log EXCEPT ![p] = Append(@, Op("maxorder", <<>>, ok))]
        /\ IF ~ok
           THEN Return(p, exitFail, "order", <<>>, TRUE, 0) /\ loc' = loc
           ELSE LET first == ForceNext(plan[p].all, inv[p].version, 1)
                IN  IF first > Len(plan[p].all)
                    THEN Return(p, exitOK, "none", <<>>, FALSE, 0) /\ loc' = loc
                    ELSE /\ loc' = [loc EXCEPT ![p] = [NoLoc EXCEPT !.i = first,
                                        !.maxOrder = MaxExecutionOrder(ledger) + 1]]
                         /\ pc' = [pc EXCEPT ![p] = "forceLoop"]
                         /\ ret' = ret
    /\ UNCHANGED <<source, ledger, schema, dbLock, dbFaults, inv, held, plan, runs, edits, planOut, reverted, files, scanOut, conn, events, libVars>>

\* ForceBaseline's fake test, taken to hold always
IsFakeAlways(p) == TRUE

\* ForceBaseline's fake test: if !fake runs the up file
IsFake(p) == inv[p].fake

\* ForceBaseline's return on a failed transaction, were it ApplyUp's nil list
ForceStopNil(p, o) == Return(p, exitFail, o, <<>>, TRUE, 0)

\* ForceBaseline's return on a failed BeginTx, Exec or Commit: return applied, err
ForceStop(p, o) == Return(p, exitFail, o, loc[p].applied, FALSE, 0)

\* with fake unset: the transaction that runs the up file of the pair
ForceExec(p) ==
    /\ pc[p] = "forceLoop"
    /\ ~IsFake(p)
    /\ LET fp == plan[p].all[loc[p].i]
           k == keyOf(fp.version, fp.name)
       IN  \E o \in TxOutcomes :
           /\ log' = [log EXCEPT ![p] = Append(@, Op("execup", k, o = "ok"))]
           /\ IF o = "ok"
              THEN /\ schema' = [schema EXCEPT ![k] = Bump(@)]
                   /\ pc' = [pc EXCEPT ![p] = "forceCommitted"]
                   /\ ret' = ret
              ELSE /\ schema' = schema
                   /\ ForceStop(p, o)
    /\ UNCHANGED <<source, ledger, dbLock, dbFaults, inv, held, plan, loc, runs, edits, planOut, reverted, files, scanOut, conn, events, libVars>>

\* the Upsert of the pair's success row and the step to the next pair
ForceRecord(p) ==
    /\ \/ pc[p] = "forceCommitted"
       \/ pc[p] = "forceLoop" /\ IsFake(p)
    /\ LET row == ForceRow(p)
           next == ForceNext(plan[p].all, inv[p].version, loc[p].i + 1)
           applied == Append(loc[p].applied, row)
       IN  \E ok \in Outcomes :
           /\ log' = [log EXCEPT ![p] = Append(@, Op("upsert", KeyOfRec(row), ok))]
           /\ IF ~ok
              THEN /\ ledger' = ledger
                   /\ Return(p, exitFail, "upsert", loc[p].applied, FALSE, 0)
                   /\ loc' = loc
              ELSE /\ ledger' = Upsert(ledger, row)
                   /\ IF next > Len(plan[p].all)
                      THEN /\ Return(p, exitOK, "none", applied, FALSE, 0)
                           /\ loc' = [loc EXCEPT ![p].applied = applied]
                      ELSE /\ loc' = [loc EXCEPT ![p].applied = applied, ![p].i = next,
                                                 ![p].maxOrder = @ + 1]
                           /\ pc' = [pc EXCEPT ![p] = "forceLoop"]
                           /\ ret' = ret
    /\ UNCHANGED <<source, schema, dbLock, dbFaults, inv, held, plan, runs, edits, planOut, reverted, files, scanOut, conn, events, libVars>>

(***************************************************************************)
(* repairChecksums behind case "repair".                                   *)
(***************************************************************************)
RECURSIVE RepairNextOfRows(_, _, _)
\* the next index from i whose pair has a row, whatever its checksum
RepairNextOfRows(all, applied, i) ==
    IF i > Len(all) THEN i
    ELSE IF keyOf(all[i].version, all[i].name) \in DOMAIN applied THEN i
    ELSE RepairNextOfRows(all, applied, i + 1)

RECURSIVE RepairNext(_, _, _)
\* the next index from i whose pair has a row with another checksum
RepairNext(all, applied, i) ==
    IF i > Len(all) THEN i
    ELSE LET k == keyOf(all[i].version, all[i].name)
         IN  IF k \in DOMAIN applied /\ ~EqualFold(applied[k].checksum, all[i].checksum)
             THEN i
             ELSE RepairNext(all, applied, i + 1)

\* the loop of repairChecksums up to its next Upsert, or to its return
RepairStep(p) ==
    /\ \/ pc[p] = "planned" /\ inv[p].name = "repair"
       \/ pc[p] = "repairLoop"
    /\ LET from == IF pc[p] = "planned" THEN 1 ELSE loc[p].i
           changed == IF pc[p] = "planned" THEN 0 ELSE loc[p].changed
           j == RepairNext(plan[p].all, plan[p].applied, from)
       IN  IF j > Len(plan[p].all)
           THEN /\ Return(p, exitOK, "none", <<>>, FALSE, changed)
                /\ UNCHANGED <<ledger, loc, log>>
           ELSE LET fp == plan[p].all[j]
                    k == keyOf(fp.version, fp.name)
                    row == [plan[p].applied[k] EXCEPT !.checksum = fp.checksum]
                IN  IF inv[p].dry
                    THEN /\ loc' = [loc EXCEPT ![p] = [NoLoc EXCEPT !.i = j + 1, !.changed = changed + 1]]
                         /\ pc' = [pc EXCEPT ![p] = "repairLoop"]
                         /\ UNCHANGED <<ledger, ret, log>>
                    ELSE \E ok \in Outcomes :
                         /\ log' = [log EXCEPT ![p] = Append(@, Op("upsert", k, ok))]
                         /\ IF ok
                            THEN /\ ledger' = Upsert(ledger, row)
                                 /\ loc' = [loc EXCEPT ![p] = [NoLoc EXCEPT !.i = j + 1,
                                                                 !.changed = changed + 1]]
                                 /\ pc' = [pc EXCEPT ![p] = "repairLoop"]
                                 /\ ret' = ret
                            ELSE /\ Return(p, exitFail, "upsert", <<>>, FALSE, changed)
                                 /\ UNCHANGED <<ledger, loc>>
    /\ UNCHANGED <<source, schema, dbLock, dbFaults, inv, held, plan, runs, edits, planOut, reverted, files, scanOut, conn, events, libVars>>

(***************************************************************************)
(* The environment and the specifications.                                 *)
(***************************************************************************)
\* somebody edits the up file of a pair: its checksum changes
EditSource ==
    /\ edits < MaxEdits
    /\ edits' = edits + 1
    /\ \E f \in source : \E s \in FileSums \ {f.checksum} :
        source' = (source \ {f}) \cup {[f EXCEPT !.checksum = s]}
    /\ UNCHANGED <<ledger, schema, dbLock, dbFaults, pc, inv, held, plan, loc, ret, log, runs, planOut, reverted, files, scanOut, conn, events, libVars>>

FilePair(pr, sum) == [version |-> pr.version, name |-> pr.name, checksum |-> sum]

AllKeys == {KeyOfRec(pr) : pr \in PairUniverse}

NoPlanOut == [err |-> "unset", plan |-> NoPlan]

NoScanOut == [err |-> "unset", pairs |-> {}]


\* no invocation has started, no handle holds a lock
InitIdle ==
    /\ pc = [p \in Procs |-> "idle"]
    /\ inv = [p \in Procs |-> NoInv]
    /\ held = [p \in Procs |-> FALSE]
    /\ plan = [p \in Procs |-> NoPlan]
    /\ loc = [p \in Procs |-> NoLoc]
    /\ ret = [p \in Procs |-> NoRet]
    /\ log = [p \in Procs |-> <<>>]
    /\ runs = 0
    /\ edits = 0
    /\ planOut = NoPlanOut
    /\ scanOut = NoScanOut
    /\ conn = [p \in Procs |-> "nil"]
    /\ events = [p \in Procs |-> <<>>]
    /\ reverted = {}
    /\ dbLock = "none"
    /\ schema = [k \in AllKeys |-> 0]
    /\ named = [k \in LockKeys |-> "none"]

\* the invocations work on the database "d" and the ledger table "t"
InitProcs ==
    /\ InitIdle
    /\ lockKey = [p \in Procs |-> LockSetting(<<100>>, <<>>, <<116>>)]
    /\ config = NoConfig

Step(p) ==
    \/ RunEnsure(p)
    \/ RunAcquire(p)
    \/ RunPlan(p)
    \/ CmdStatus(p)
    \/ UpBegin(p)
    \/ UpExec(p)
    \/ UpRecordFailed(p)
    \/ UpRecord(p)
    \/ DownBegin(p)
    \/ DownExec(p)
    \/ DownDelete(p)
    \/ ForceBegin(p)
    \/ ForceExec(p)
    \/ ForceRecord(p)
    \/ RepairStep(p)
    \/ Finish(p)

\* two CLI processes on one database whose statements may fail
Init ==
    /\ InitProcs
    /\ source = {FilePair(PairA, "aa"), FilePair(PairC, "aa")}
    /\ ledger = {}
    /\ dbFaults = TRUE
    /\ files = <<>>

Next == \E p \in Procs : Step(p)

Spec == Init /\ [][Next]_vars

\* one CLI process, invoked again and again, on a database that fails no statement
InitReliable ==
    /\ InitProcs
    /\ source = {FilePair(pr, "aa") : pr \in PairUniverse}
    /\ ledger = {}
    /\ dbFaults = FALSE
    /\ files = <<>>

NextReliable == EditSource \/ Step("p1")

SpecReliable == InitReliable /\ [][NextReliable]_vars

\* somebody deletes the two files of a pair from the migrations directory
RemovePair ==
    /\ edits < MaxRemovals
    /\ edits' = edits + 1
    /\ \E f \in source : source' = source \ {f}
    /\ UNCHANGED <<ledger, schema, dbLock, dbFaults, pc, inv, held, plan, loc, ret, log, runs, planOut, reverted, files, scanOut, conn, events, libVars>>

NextRemoved == RemovePair \/ Step("p1")

\* one CLI process on a reliable database while pairs disappear from the directory
SpecRemoved == InitReliable /\ [][NextRemoved]_vars

\* the planner alone, on every directory and every ledger of the universe
PairRank(pr) ==
    Cardinality({q \in PairUniverse : KeyLess(KeyOfRec(q), KeyOfRec(pr))}) + 1

PlanSources ==
    {{FilePair(pr, f[pr]) : pr \in S} : f \in [PairUniverse -> FileSums],
                                         S \in SUBSET PairUniverse}

RowChoices == {<<st, sum>> : st \in Statuses, sum \in LedgerSums}

PlanLedgers ==
    {{Row(FilePair(pr, f[pr][2]), "p1", f[pr][1], PairRank(pr)) : pr \in S} :
        f \in [PairUniverse -> RowChoices], S \in SUBSET PairUniverse}

InitPlan ==
    /\ InitProcs
    /\ source \in PlanSources
    /\ ledger \in PlanLedgers
    /\ dbFaults = FALSE
    /\ files = <<>>

\* DiscoverAndPlan called on the directory and the ledger
PlanOnce ==
    /\ planOut.err = "unset"
    /\ planOut' = DiscoverAndPlan(source, ledger)
    /\ UNCHANGED <<source, ledger, schema, dbLock, dbFaults, pc, inv, held, plan, loc, ret,
                   log, runs, edits, reverted, files, scanOut, conn, events, libVars>>

SpecPlan == InitPlan /\ [][PlanOnce]_vars

\* somebody adds the two files of a new pair to the migrations directory
AddPair ==
    /\ edits < MaxAdds
    /\ edits' = edits + 1
    /\ \E pr \in PairUniverse :
        /\ KeyOfRec(pr) \notin {KeyOfRec(f) : f \in source}
        /\ source' = source \cup {FilePair(pr, "aa")}
    /\ UNCHANGED <<ledger, schema, dbLock, dbFaults, pc, inv, held, plan, loc, ret, log, runs, planOut, reverted, files, scanOut, conn, events, libVars>>

\* the directory holds the pair of the latest version only
InitAdded ==
    /\ InitProcs
    /\ source = {FilePair(PairC, "aa")}
    /\ ledger = {}
    /\ dbFaults = FALSE
    /\ files = <<>>

NextAdded == AddPair \/ Step("p1")

\* one CLI process on a reliable database while pairs of earlier versions are added
SpecAdded == InitAdded /\ [][NextAdded]_vars

\* the process of p dies: its session ends, which releases the lock it holds; what
\* it committed stays
Crash(p) ==
    /\ pc[p] # "idle"
    /\ dbLock' = ReleaseLock(dbLock, p)
    /\ held' = [held EXCEPT ![p] = FALSE]
    /\ pc' = [pc EXCEPT ![p] = "idle"]
    /\ inv' = [inv EXCEPT ![p] = NoInv]
    /\ plan' = [plan EXCEPT ![p] = NoPlan]
    /\ loc' = [loc EXCEPT ![p] = NoLoc]
    /\ ret' = [ret EXCEPT ![p] = NoRet]
    /\ log' = [log EXCEPT ![p] = <<>>]
    /\ conn' = [conn EXCEPT ![p] = "nil"]
    /\ events' = [events EXCEPT ![p] = <<>>]
    /\ UNCHANGED <<source, ledger, schema, dbFaults, runs, edits, planOut, reverted, files, scanOut, libVars>>

NextCrash == Crash("p1") \/ Step("p1")

\* one CLI process that may die at any point, on a database that fails no statement
SpecCrash == InitReliable /\ [][NextCrash]_vars

\* somebody deletes the down file of a pair: its up file stays in the directory
BreakPair ==
    /\ edits < MaxBreaks
    /\ edits' = edits + 1
    /\ \E f \in source :
        /\ source' = source \ {f}
        /\ files' = Append(files, Entry(f.version, f.name, "up"))
    /\ UNCHANGED <<ledger, schema, dbLock, dbFaults, pc, inv, held, plan, loc, ret, log, runs, planOut, reverted, scanOut, conn, events, libVars>>

InitBroken ==
    /\ InitProcs
    /\ source = {FilePair(pr, "aa") : pr \in PairUniverse}
    /\ ledger = {}
    /\ dbFaults = TRUE
    /\ files = <<>>

NextBroken == BreakPair \/ Step("p1")

\* one CLI process on a database whose statements may fail, while a pair of the
\* directory loses its down file
SpecBroken == InitBroken /\ [][NextBroken]_vars

NextLive == Step("p1")

\* the steps of case "up": a running process executes its next statement, and
\* each statement returns
UpFairness ==
    /\ WF_vars(UpBegin("p1"))
    /\ WF_vars(UpExec("p1"))
    /\ WF_vars(UpRecordFailed("p1"))
    /\ WF_vars(UpRecord("p1"))

\* one CLI process on a reliable database whose up, once it has planned, goes on
SpecLive == InitReliable /\ [][NextLive]_vars /\ UpFairness

\* the scanner alone, on every listing of the universe.  A listing may name a file
\* twice: ScanEmbedded lists whatever fs.FS it is given.
ScanEntries ==
    {Entry(pr.version, pr.name, t) : pr \in {PairA, PairC}, t \in {"up", "down"}}
        \cup {Entry(<<>>, <<>>, "none")}

Listings == UNION {[1..n -> ScanEntries] : n \in 0..MaxListing}

InitScan ==
    /\ InitProcs
    /\ source = {}
    /\ ledger = {}
    /\ dbFaults = FALSE
    /\ files \in Listings

\* scan called on the listing
ScanOnce ==
    /\ scanOut.err = "unset"
    /\ scanOut' = scan(ListDir(source, files))
    /\ UNCHANGED <<source, ledger, schema, dbLock, dbFaults, pc, inv, held, plan, loc, ret,
                   log, runs, edits, planOut, reverted, files, conn, events, libVars>>

SpecScan == InitScan /\ [][ScanOnce]_vars

\* "10_a": a version of two digits, which Go's string order puts before "2"
PairD == [version |-> <<49, 48>>, name |-> <<97>>]

OrderUniverse == PairUniverse \cup {PairD}

OrderRank(pr) ==
    Cardinality({q \in OrderUniverse : KeyLess(KeyOfRec(q), KeyOfRec(pr))}) + 1

OrderSources == {{FilePair(pr, "aa") : pr \in S} : S \in SUBSET OrderUniverse}

OrderLedgers ==
    {{Row(FilePair(pr, "aa"), "p1", f[pr], OrderRank(pr)) : pr \in S} :
        f \in [OrderUniverse -> Statuses], S \in SUBSET OrderUniverse}

\* the planner on directories whose versions differ in length, without drift
InitOrder ==
    /\ InitProcs
    /\ source \in OrderSources
    /\ ledger \in OrderLedgers
    /\ dbFaults = FALSE
    /\ files = <<>>

SpecOrder == InitOrder /\ [][PlanOnce]_vars

(***************************************************************************)
(* The lock handle as a library: two handles of lock.MySQL on one server,  *)
(* called in any order.  pc marks the handle of the last call, log and ret *)
(* are the statements and the answer of that call.                         *)
(***************************************************************************)
LockCall(p, name) ==
    /\ runs < MaxCalls
    /\ runs' = runs + 1
    /\ pc' = [q \in Procs |-> IF q = p THEN name ELSE "idle"]

LockAnswer(p, err, ops) ==
    /\ ret' = [ret EXCEPT ![p] = [NoRet EXCEPT !.err = err]]
    /\ log' = [log EXCEPT ![p] = ops]

\* MySQL.Acquire
LockAcquire(p) ==
    /\ LockCall(p, "acquire")
    /\ LET key == lockKey[p].key
       IN  IF HandleHeld(p)
           THEN /\ LockAnswer(p, "none", <<>>)
                /\ UNCHANGED <<held, conn, named>>
           ELSE \E opened \in Outcomes :
                IF ~opened
                THEN /\ LockAnswer(p, "conn", <<Op("conn", key, FALSE)>>)
                     /\ conn' = [conn EXCEPT ![p] = "nil"]
                     /\ UNCHANGED <<held, named>>
                ELSE \E got \in GetLock(named[key], p, dbFaults)
                                   \cup (IF named[key] = p THEN {0} ELSE {}) :
                     IF AcquireGranted(got)
                     THEN /\ LockAnswer(p, "none", <<Op("conn", key, TRUE), Op("getlock", key, TRUE)>>)
                          /\ held' = [held EXCEPT ![p] = TRUE]
                          /\ conn' = [conn EXCEPT ![p] = "open"]
                          /\ named' = [named EXCEPT ![key] = p]
                     ELSE /\ LockAnswer(p, "lock", <<Op("conn", key, TRUE), Op("getlock", key, FALSE)>>)
                          /\ conn' = [conn EXCEPT ![p] = "closed"]
                          /\ UNCHANGED <<held, named>>
    /\ UNCHANGED <<source, ledger, schema, dbLock, dbFaults, inv, plan, loc, edits, planOut,
                   reverted, files, scanOut, events, lockKey, config>>

\* MySQL.Release: a RELEASE_LOCK that failed may have left the lock with the
\* session, which conn.Close() returns to the pool
LockRelease(p) ==
    /\ LockCall(p, "release")
    /\ LET key == lockKey[p].key
       IN  IF ~HandleHeld(p) \/ conn[p] = "nil"
           THEN /\ LockAnswer(p, "none", <<>>)
                /\ UNCHANGED <<held, conn, named>>
           ELSE \E released \in Outcomes, closed \in Outcomes :
                /\ LockAnswer(p, ReleaseResult(released, closed),
                              <<Op("releaselock", key, released), Op("close", key, closed)>>)
                /\ held' = [held EXCEPT ![p] = FALSE]
                /\ conn' = [conn EXCEPT ![p] = "closed"]
                /\ named' \in {[named EXCEPT ![key] = ReleaseLock(@, p)]}
                                \cup (IF released THEN {} ELSE {named})
    /\ UNCHANGED <<source, ledger, schema, dbLock, dbFaults, inv, plan, loc, edits, planOut,
                   reverted, files, scanOut, events, lockKey, config>>

InitLock ==
    /\ InitIdle
    /\ source = {}
    /\ ledger = {}
    /\ files = <<>>
    /\ config = NoConfig
    /\ dbFaults \in BOOLEAN
    /\ lockKey \in [Procs -> LockSettings]

NextLock == \E p \in Procs : LockAcquire(p) \/ LockRelease(p)

SpecLock == InitLock /\ [][NextLock]_vars

(***************************************************************************)
(* run() deriving the configuration of one invocation.                     *)
(***************************************************************************)
InitConfig ==
    /\ InitIdle
    /\ source = {}
    /\ ledger = {}
    /\ dbFaults = FALSE
    /\ files = <<>>
    /\ lockKey = [p \in Procs |-> LockSetting(<<100>>, <<>>, <<116>>)]
    /\ \E g \in GivenSettings : config = [NoConfig EXCEPT !.given = g]

ConfigOnce ==
    /\ ~config.merged
    /\ config' = [config EXCEPT !.cfg = LoadConfig(config.given), !.merged = TRUE]
    /\ UNCHANGED <<source, ledger, schema, dbLock, dbFaults, pc, inv, held, plan, loc, ret,
                   log, runs, edits, planOut, reverted, files, scanOut, conn, events,
                   lockKey, named>>

SpecConfig == InitConfig /\ [][ConfigOnce]_vars

\* one CLI process on a reliable database that is never given force --fake
NextNoFake == NextReliable /\ ~inv'["p1"].fake

SpecNoFake == InitReliable /\ [][NextNoFake]_vars

(***************************************************************************)
(* The claims.                                                             *)
(***************************************************************************)
\* p is between a granted Acquire and its deferred Release
InCritical(p) == pc[p] \notin {"idle", "ensured"} /\ ~(pc[p] = "done" /\ ret[p].err \in {"ensure", "lock"})

SuccessRowFor(fp) ==
    \E r \in ledger : KeyOfRec(r) = KeyOfRec(fp) /\ r.status = "success"

UpPcs == {"planned", "upLoop", "upCommitted", "upFailed"}

LedgerOps == {"getall", "upsert", "delete"}

\* C2: every ledger read of planning and every ledger Upsert and Delete of an
\* invocation is issued while that invocation holds the advisory lock.
C2_LedgerUnderLock ==
    [][\A p \in Procs :
        (log'[p] # log[p] /\ log'[p] # <<>> /\ log'[p][Len(log'[p])].op \in LedgerOps)
            => (dbLock = p /\ held[p])]_vars

\* a process that holds the lock has planned and written a row
C2_Witness ==
    \E p \in Procs :
        /\ dbLock = p
        /\ \E i \in 1..Len(log[p]) : log[p][i].op = "getall"
        /\ \E i \in 1..Len(log[p]) : log[p][i].op = "upsert" /\ log[p][i].ok

\* C3: an invocation that could not acquire the advisory lock ends with exit code 3,
\* which is not the migration-failure code, having issued no ledger statement and
\* executed no script.
C3_LockTimeoutExit ==
    \A p \in Procs :
        pc[p] = "done" /\ ret[p].err = "lock" =>
            /\ ret[p].code = 3
            /\ ret[p].code # exitFail
            /\ log[p] = <<>>
            /\ ~held[p]

\* a process gave up on the lock while another process holds it
C3_Witness ==
    \E p \in Procs :
        /\ pc[p] = "done"
        /\ ret[p].err = "lock"
        /\ dbLock \notin {"none", p}

\* C4: the forward script of a (version, name) is committed at most once, unless its
\* backward script was committed in between.
C4_AtMostOnce == \A k \in AllKeys : schema[k] <= 1

PendingByLedger(fp) ==
    \/ ~\E r \in ledger : KeyOfRec(r) = KeyOfRec(fp)
    \/ \E r \in ledger : KeyOfRec(r) = KeyOfRec(fp) /\ r.status = "failed"

Drifted ==
    \E f \in source, r \in ledger :
        /\ KeyOfRec(r) = KeyOfRec(f)
        /\ r.status = "success"
        /\ ToLower(r.checksum) # ToLower(f.checksum)

SeqRange(q) == {q[i] : i \in 1..Len(q)}

\* C5: on a ledger without drift, planning succeeds, Plan.all holds every discovered
\* pair once, and Plan.pending is exactly the sub-sequence of Plan.all of the pairs
\* with no ledger entry or with a failed one.
C5_PendingExact ==
    (planOut.err # "unset" /\ ~Drifted) =>
        /\ planOut.err = "none"
        /\ SeqRange(planOut.plan.all) = source
        /\ Len(planOut.plan.all) = Cardinality(source)
        /\ planOut.plan.pending = SelectSeq(planOut.plan.all, PendingByLedger)

\* a plan with a retried change, a new change and an applied change
C5_Witness ==
    /\ planOut.err = "none"
    /\ Len(planOut.plan.all) = 3
    /\ Len(planOut.plan.pending) = 2
    /\ \E r \in ledger : r.status = "failed" /\ KeyOfRec(r) = KeyOfRec(planOut.plan.pending[1])
    /\ ~\E r \in ledger : KeyOfRec(r) = KeyOfRec(planOut.plan.pending[2])

\* C6: a success entry whose checksum differs, case-insensitively, from its pair's
\* makes planning fail with the drift error and no plan; without such an entry
\* planning does not fail, and a failed entry with a differing checksum makes its
\* pair pending.
C6_DriftFailsPlan ==
    planOut.err # "unset" =>
        /\ Drifted => planOut = [err |-> "drift", plan |-> NoPlan]
        /\ ~Drifted =>
            /\ planOut.err = "none"
            /\ \A f \in source, r \in ledger :
                (KeyOfRec(r) = KeyOfRec(f) /\ r.status = "failed"
                    /\ ToLower(r.checksum) # ToLower(f.checksum))
                    => f \in SeqRange(planOut.plan.pending)

\* planning failed with drift although other pairs are unaffected or merely failed
C6_Witness ==
    /\ planOut.err = "drift"
    /\ Cardinality(source) = 3
    /\ \E r \in ledger : r.status = "failed"
    /\ \E f \in source : ~\E r \in ledger : KeyOfRec(r) = KeyOfRec(f)

RowOf(l, fp) == {r \in l : KeyOfRec(r) = KeyOfRec(fp)}

\* C7: ApplyUp is fail-fast.  When the script of pending[i] fails to execute or to
\* commit, ApplyUp returns the rows of pending[1..i-1] only, the ledger holds their
\* success rows and a failed row for pending[i], and no later pending change is
\* executed or has its ledger entry touched; no script is executed after a failed one.
C7_FailFast ==
    \A p \in Procs :
        /\ (inv[p].name = "up" =>
                \A a, b \in 1..Len(log[p]) :
                    (a < b /\ log[p][a].op = "execup" /\ ~log[p][a].ok)
                        => log[p][b].op # "execup")
        /\ (pc[p] = "done" /\ inv[p].name = "up" /\ ret[p].err = "script") =>
            LET pend == plan[p].pending
                i == loc[p].i
                m == loc[p].maxOrder - i
            IN  /\ ~ret[p].nil
                /\ ret[p].code = exitFail
                /\ ret[p].applied = [j \in 1..(i - 1) |-> Row(pend[j], p, "success", m + j)]
                /\ \A j \in 1..(i - 1) : RowOf(ledger, pend[j]) = {ret[p].applied[j]}
                /\ RowOf(ledger, pend[i]) = {Row(pend[i], p, "failed", m + i)}
                /\ \A j \in (i + 1)..Len(pend) :
                    /\ ~\E a \in 1..Len(log[p]) :
                            log[p][a].op \in {"execup", "upsert"} /\ log[p][a].key = KeyOfRec(pend[j])
                    /\ RowOf(ledger, pend[j]) = RowOf({plan[p].applied[k] : k \in DOMAIN plan[p].applied}, pend[j])

\* of three pending changes the second failed
C7_Witness ==
    \E p \in Procs :
        /\ pc[p] = "done"
        /\ inv[p].name = "up"
        /\ ret[p].err = "script"
        /\ Len(plan[p].pending) = 3
        /\ loc[p].i = 2

\* C8: a failed change is pending in the next plan, at its place in the order of
\* Plan.all, and a step that turns its entry from failed to success leaves one entry
\* for it, with an execution order above every order the ledger held before the step.
C8_RetryOverwrites ==
    [][/\ \A p \in Procs : pc[p] = "planned" =>
            /\ \A j \in 1..Len(plan[p].all) :
                LET k == KeyOfRec(plan[p].all[j])
                IN  (k \in DOMAIN plan[p].applied /\ plan[p].applied[k].status = "failed")
                        => plan[p].all[j] \in SeqRange(plan[p].pending)
            /\ \A a, b \in 1..Len(plan[p].pending) :
                a < b => KeyLess(KeyOfRec(plan[p].pending[a]), KeyOfRec(plan[p].pending[b]))
       /\ \A r \in ledger, n \in ledger' :
            (KeyOfRec(r) = KeyOfRec(n) /\ r.status = "failed" /\ n.status = "success") =>
                /\ n.order > MaxExecutionOrder(ledger)
                /\ \A x \in ledger : n.order > x.order
                /\ RowOf(ledger', n) = {n}]_vars

\* an up has turned the failed entry it planned with into a success entry
C8_Witness ==
    \E p \in Procs :
        /\ inv[p].name = "up"
        /\ pc[p] \in {"upLoop", "done"}
        /\ \E k \in DOMAIN plan[p].applied :
            /\ plan[p].applied[k].status = "failed"
            /\ \E r \in ledger : KeyOfRec(r) = k /\ r.status = "success"
                                  /\ r.order > plan[p].applied[k].order

\* C9: ApplyUp with dryRun set issues no Upsert and executes no script, leaves the
\* ledger as planning read it, and returns one success row per pending change, in
\* plan order, with the execution orders max+1, max+2, ...
C9_DryRunUp ==
    \A p \in Procs :
        (inv[p].name = "up" /\ inv[p].dry /\ pc[p] \in {"upLoop", "upCommitted", "upFailed", "done"}
         /\ ret[p].err \in {"none"} /\ Len(plan[p].pending) > 0) =>
            /\ pc[p] \in {"upLoop", "done"}
            /\ GetAll(ledger) = plan[p].applied
            /\ \A a \in 1..Len(log[p]) : log[p][a].op \in {"getall", "maxorder"}
            /\ pc[p] = "done" =>
                /\ ret[p].code = exitOK
                /\ ret[p].applied =
                    [j \in 1..Len(plan[p].pending) |->
                        Row(plan[p].pending[j], p, "success", MaxExecutionOrder(ledger) + j)]

\* a dry-run up returned two synthetic rows over a ledger that holds a row
C9_Witness ==
    \E p \in Procs :
        /\ pc[p] = "done"
        /\ inv[p].name = "up"
        /\ inv[p].dry
        /\ Len(ret[p].applied) = 2
        /\ ledger # {}

\* C10: the ledger never holds two entries with the same (version, name).
C10_UniqueKey ==
    \A r1, r2 \in ledger : KeyOfRec(r1) = KeyOfRec(r2) => r1 = r2

\* a repair has rewritten the entry of a change that had one
C10_Witness ==
    \E p \in Procs :
        /\ inv[p].name = "repair"
        /\ \E k \in DOMAIN plan[p].applied :
            \E r \in ledger : KeyOfRec(r) = k /\ r # plan[p].applied[k]

\* the rows a step adds to the ledger or rewrites
Written == ledger' \ ledger

\* C11: in every reachable ledger no two entries share an execution order, and every
\* entry an up or a force invocation writes has an execution order strictly greater
\* than that of every entry the ledger held when it was written.
C11_OrdersUniqueIncreasing ==
    [][/\ \A r1, r2 \in ledger' : r1.order = r2.order => r1 = r2
       /\ \A p \in Procs :
            (log'[p] # log[p] /\ inv[p].name \in {"up", "force"}) =>
                \A n \in Written : \A x \in ledger : n.order > x.order]_vars

\* a retried change was recorded above a gap left by its failed attempt
C11_Witness ==
    /\ Cardinality(ledger) = 2
    /\ \E r \in ledger : r.order = 3 /\ r.status = "success"
    /\ \E r \in ledger : r.order = 1

\* the maximum execution order of the ledger as planning read it
PlannedMax(p) ==
    LET orders == {plan[p].applied[k].order : k \in DOMAIN plan[p].applied}
    IN  IF orders = {} THEN 0 ELSE CHOOSE o \in orders : \A x \in orders : x <= o

UpStarted(p) ==
    /\ inv[p].name = "up"
    /\ pc[p] \in {"upLoop", "upCommitted", "upFailed", "done"}
    /\ loc[p].i >= 1

\* C12: within one ApplyUp call on a ledger whose maximum execution order is m, the
\* maximum is read once, and the k-th change attempted, failed attempts included, is
\* recorded (in the ledger and in the returned list) with execution order m + k.
C12_OrderPerAttempt ==
    \A p \in Procs :
        UpStarted(p) =>
            LET m == PlannedMax(p)
                pend == plan[p].pending
            IN  /\ Cardinality({a \in 1..Len(log[p]) : log[p][a].op = "maxorder"}) = 1
                /\ \A j \in 1..Len(loc[p].applied) :
                    /\ KeyOfRec(loc[p].applied[j]) = KeyOfRec(pend[j])
                    /\ loc[p].applied[j].order = m + j
                /\ \A a \in 1..Len(log[p]) :
                    (log[p][a].op = "upsert" /\ log[p][a].ok) =>
                        \E j \in 1..Len(pend) :
                            /\ KeyOfRec(pend[j]) = log[p][a].key
                            /\ \E r \in ledger : KeyOfRec(r) = log[p][a].key /\ r.by = p
                                                  /\ r.order = m + j

\* over a ledger that held a row, the first change succeeded and the second failed
C12_Witness ==
    \E p \in Procs :
        /\ UpStarted(p)
        /\ pc[p] = "done"
        /\ ret[p].err = "script"
        /\ loc[p].i = 2
        /\ PlannedMax(p) = 1
        /\ \E r \in ledger : r.status = "success" /\ r.order = 2
        /\ \E r \in ledger : r.status = "failed" /\ r.order = 3

\* the success entries of the ledger, as (version, name, checksum)
SuccessEntries == {FilePair(r, r.checksum) : r \in {x \in ledger : x.status = "success"}}

UpSucceeded(p) ==
    /\ pc[p] = "done"
    /\ inv[p].name = "up"
    /\ ~inv[p].dry
    /\ ret[p].code = exitOK

\* C13: once ApplyDown has reverted a row the ledger has no entry for its (version,
\* name), the next plan lists the change as pending again, and an up that succeeds
\* after a down ends, like every up that succeeds, with the success entries of exactly
\* the discovered pairs: up, down n, up gives the success entries of the first up.
C13_DownThenUp ==
    \A p \in Procs :
        /\ \A a \in 1..Len(log[p]) :
            (log[p][a].op = "delete" /\ log[p][a].ok) =>
                /\ log[p][a].key \in reverted
                /\ ~\E r \in ledger : KeyOfRec(r) = log[p][a].key
        /\ pc[p] = "planned" =>
            \A j \in 1..Len(plan[p].all) :
                (KeyOfRec(plan[p].all[j]) \in reverted
                 /\ KeyOfRec(plan[p].all[j]) \notin DOMAIN plan[p].applied)
                    => plan[p].all[j] \in SeqRange(plan[p].pending)
        /\ UpSucceeded(p) => SuccessEntries = SeqRange(plan[p].all)

\* an up has applied again every change that a down had reverted
C13_Witness ==
    \E p \in Procs :
        /\ UpSucceeded(p)
        /\ reverted = AllKeys
        /\ Len(ret[p].applied) = 3
        /\ Cardinality(SuccessEntries) = 3

\* the rows of the ledger as planning read it
PlannedRows(p) == {plan[p].applied[k] : k \in DOMAIN plan[p].applied}

DownStarted(p) ==
    /\ inv[p].name = "down"
    /\ pc[p] \in {"downLoop", "downCommitted", "done"}
    /\ ret[p].err \notin {"query"}

\* the a-th element of the execdown operations of p's log
ExecDowns(p) == SelectSeq(log[p], LAMBDA o : o.op = "execdown")

\* C14: down n works on exactly the n success entries with the highest execution
\* orders (all of them when fewer than n exist or for down all), runs their backward
\* scripts in strictly decreasing execution order, never selects a failed entry, and
\* when it succeeds has deleted exactly those entries.
C14_DownSelectsLast ==
    \A p \in Procs :
        DownStarted(p) =>
            LET S == {r \in PlannedRows(p) : r.status = "success"}
                rows == loc[p].rows
                picked == SeqRange(rows)
            IN  /\ Len(rows) = (IF inv[p].n < Cardinality(S) THEN inv[p].n ELSE Cardinality(S))
                /\ picked \subseteq S
                /\ \A i, j \in 1..Len(rows) : i < j => rows[i].order > rows[j].order
                /\ \A r \in S \ picked : \A x \in picked : r.order < x.order
                /\ Len(ExecDowns(p)) <= Len(rows)
                /\ \A a \in 1..Len(ExecDowns(p)) : ExecDowns(p)[a].key = KeyOfRec(rows[a])
                /\ (pc[p] = "done" /\ ret[p].code = exitOK) =>
                        ledger = (IF inv[p].dry THEN PlannedRows(p) ELSE PlannedRows(p) \ picked)

\* down 2 has reverted the last two of three applied changes
C14_Witness ==
    \E p \in Procs :
        /\ DownStarted(p)
        /\ pc[p] = "done"
        /\ ret[p].code = exitOK
        /\ ~inv[p].dry
        /\ inv[p].n = 2
        /\ Cardinality(PlannedRows(p)) = 3
        /\ Cardinality(ledger) = 1

PlannedKeys(p) == {KeyOfRec(plan[p].all[j]) : j \in 1..Len(plan[p].all)}

\* C15: ApplyDown on a row whose (version, name) has no discovered pair fails with the
\* missing-script error, in dry-run as in real mode: the command ends with the failure
\* exit code, the row's entry is still in the ledger, and no backward script is ever
\* run, and no row passed over, for a (version, name) without a discovered pair.
C15_MissingDown ==
    \A p \in Procs :
        DownStarted(p) =>
            /\ \A a \in 1..Len(log[p]) :
                log[p][a].op \in {"execdown", "delete"} => log[p][a].key \in PlannedKeys(p)
            /\ \A j \in 1..Len(loc[p].rows) :
                KeyOfRec(loc[p].rows[j]) \notin PlannedKeys(p) =>
                    /\ loc[p].i <= j
                    /\ loc[p].rows[j] \in ledger
                    /\ (loc[p].i = j => pc[p] \in {"downLoop", "done"})
                    /\ (pc[p] = "done" =>
                            /\ ret[p].code = exitFail
                            /\ (loc[p].i = j => ret[p].err = "missing"))

\* a dry-run down stopped at a row whose pair is gone from the directory
C15_Witness ==
    \E p \in Procs :
        /\ DownStarted(p)
        /\ pc[p] = "done"
        /\ inv[p].dry
        /\ ret[p].err = "missing"
        /\ loc[p].i = 2

\* C16: a backward script that fails to execute or to commit leaves the ledger as it
\* was before that script (no failed row is written, the row's entry is kept) and
\* ends the reversion with an error: no later row of the list has its backward script
\* run or its entry deleted, the rows before it are reverted.
C16_DownFailureAborts ==
    \A p \in Procs :
        DownStarted(p) =>
            /\ \A a \in 1..Len(log[p]) : log[p][a].op # "upsert"
            /\ \A a, b \in 1..Len(log[p]) :
                (a < b /\ log[p][a].op = "execdown" /\ ~log[p][a].ok) =>
                    log[p][b].op \notin {"execdown", "delete"}
            /\ (pc[p] = "done" /\ ret[p].err \in {"exec", "commit"}) =>
                /\ ret[p].code = exitFail
                /\ \A r \in ledger : r.status = "failed" => r \in PlannedRows(p)
                /\ ledger = PlannedRows(p) \ {loc[p].rows[j] : j \in 1..(loc[p].i - 1)}
                /\ \A j \in loc[p].i..Len(loc[p].rows) : loc[p].rows[j] \in ledger
                /\ \A j \in (loc[p].i + 1)..Len(loc[p].rows) :
                    ~\E a \in 1..Len(log[p]) : log[p][a].key = KeyOfRec(loc[p].rows[j])

\* of three rows to revert the second one's backward script failed
C16_Witness ==
    \E p \in Procs :
        /\ DownStarted(p)
        /\ pc[p] = "done"
        /\ ret[p].err \in {"exec", "commit"}
        /\ Len(loc[p].rows) = 3
        /\ loc[p].i = 2
        /\ Cardinality(ledger) = 2

ForceOver(p) ==
    /\ inv[p].name = "force"
    /\ pc[p] = "done"
    /\ ret[p].code = exitOK

\* the discovered pairs whose version is not above the version given to force
UpTo(p) == SelectSeq(plan[p].all, LAMBDA fp : ~StrLess(inv[p].version, fp.version))

Upserts(p) == SelectSeq(log[p], LAMBDA o : o.op = "upsert")

\* C17: ForceBaseline(all, v, fake) upserts, walking the discovered pairs in sorted
\* order, a success entry with the pair's current checksum and the next execution
\* order for exactly the pairs whose version is at most v, and leaves the entries of
\* the pairs with a version above v as they were.
C17_ForceUpTo ==
    \A p \in Procs :
        /\ inv[p].name = "force" =>
            /\ Len(Upserts(p)) <= Len(UpTo(p))
            /\ \A a \in 1..Len(Upserts(p)) : Upserts(p)[a].key = KeyOfRec(UpTo(p)[a])
        /\ ForceOver(p) =>
            /\ ret[p].applied =
                [j \in 1..Len(UpTo(p)) |-> Row(UpTo(p)[j], p, "success", PlannedMax(p) + j)]
            /\ ledger = {r \in PlannedRows(p) : StrLess(inv[p].version, r.version)}
                            \cup SeqRange(ret[p].applied)

\* force 1 has rewritten the entries of 1_a and 1_b and left the entry of 2_a alone
C17_Witness ==
    \E p \in Procs :
        /\ ForceOver(p)
        /\ inv[p].version = <<49>>
        /\ Len(ret[p].applied) = 2
        /\ PlannedMax(p) = 3
        /\ \E r \in ledger : r.version = <<50>> /\ r.order = 3

\* the operations of p's log that ForceBaseline's loop issued
ForceOps(p) == SelectSeq(log[p], LAMBDA o : o.op \in {"execup", "upsert"})

\* C18: ForceBaseline with fake set executes no forward script and only upserts; with
\* fake unset the forward script of every pair with version at most v is executed, in a
\* transaction of its own, before the success entry of that pair is upserted.
C18_ForceFake ==
    \A p \in Procs :
        inv[p].name = "force" =>
            LET ops == ForceOps(p)
            IN  /\ inv[p].fake => \A a \in 1..Len(ops) : ops[a].op = "upsert"
                /\ ~inv[p].fake =>
                    /\ \A a \in 1..Len(ops) :
                        /\ (a % 2 = 1) => (ops[a].op = "execup"
                                            /\ ops[a].key = KeyOfRec(UpTo(p)[(a + 1) \div 2]))
                        /\ (a % 2 = 0) => (ops[a].op = "upsert" /\ ops[a - 1].ok
                                            /\ ops[a].key = ops[a - 1].key)
                    /\ ForceOver(p) => Len(ops) = 2 * Len(UpTo(p))
                /\ (ForceOver(p) /\ inv[p].fake) => Len(ops) = Len(UpTo(p))

\* a force with --fake has recorded two changes whose scripts never ran
C18_Witness ==
    \E p \in Procs :
        /\ ForceOver(p)
        /\ inv[p].fake
        /\ Len(ret[p].applied) = 2
        /\ \A k \in AllKeys : schema[k] = 0

\* C19: the repair command, run while a success entry's checksum differs from its
\* pair's, overwrites the entry's checksum: on a database that fails no statement a
\* repair invocation ends with exit code 0, never in the drift error, and every
\* success entry of a pair it discovered has that pair's checksum.
C19_RepairResolvesDrift ==
    \A p \in Procs :
        (pc[p] = "done" /\ inv[p].name = "repair" /\ ~inv[p].dry) =>
            /\ ret[p].err # "drift"
            /\ ret[p].code = exitOK
            /\ \A j \in 1..Len(plan[p].all) : \A r \in ledger :
                (KeyOfRec(r) = KeyOfRec(plan[p].all[j]) /\ r.status = "success")
                    => EqualFold(r.checksum, plan[p].all[j].checksum)

\* the discovered pairs that have an entry with another checksum
Differing(p) ==
    {fp \in SeqRange(plan[p].all) :
        /\ KeyOfRec(fp) \in DOMAIN plan[p].applied
        /\ ToLower(plan[p].applied[KeyOfRec(fp)].checksum) # ToLower(fp.checksum)}

RepairStarted(p) ==
    /\ inv[p].name = "repair"
    /\ pc[p] \in {"planned", "repairLoop", "done"}
    /\ ret[p].err \notin {"plan", "drift"}

\* the planned row r after a repair
Repaired(p, r) ==
    IF \E fp \in Differing(p) : KeyOfRec(fp) = KeyOfRec(r)
    THEN [r EXCEPT !.checksum = (CHOOSE fp \in Differing(p) : KeyOfRec(fp) = KeyOfRec(r)).checksum]
    ELSE r

\* C20: repair creates no entry for a change that has none and changes nothing but the
\* checksum of the entries it touches (status, execution order and actor stay), it
\* returns the number of entries whose checksum differed, and in dry-run it returns the
\* same number and writes nothing.
C20_RepairFrame ==
    \A p \in Procs :
        RepairStarted(p) =>
            /\ \A a \in 1..Len(log[p]) :
                log[p][a].op = "upsert" =>
                    /\ ~inv[p].dry
                    /\ \E fp \in Differing(p) : KeyOfRec(fp) = log[p][a].key
            /\ {KeyOfRec(r) : r \in ledger} = DOMAIN plan[p].applied
            /\ (pc[p] = "done" /\ ret[p].err = "none") =>
                /\ ret[p].code = exitOK
                /\ ret[p].changed = Cardinality(Differing(p))
                /\ ledger = (IF inv[p].dry THEN PlannedRows(p)
                             ELSE {Repaired(p, r) : r \in PlannedRows(p)})

\* a repair has rewritten the checksum of one entry while another change has no entry
C20_Witness ==
    \E p \in Procs :
        /\ inv[p].name = "repair"
        /\ ~inv[p].dry
        /\ pc[p] = "done"
        /\ ret[p].changed = 1
        /\ ledger # PlannedRows(p)
        /\ Cardinality(ledger) < Len(plan[p].all)

\* the listings that hold the entries of l in another order
Reorderings(l) ==
    {[i \in 1..Len(l) |-> l[f[i]]] :
        f \in {g \in [1..Len(l) -> 1..Len(l)] :
                 \A a, b \in 1..Len(l) : a # b => g[a] # g[b]}}

\* the listing of a directory: no two files have the same name
DistinctNames(l) ==
    \A a, b \in 1..Len(l) : (a # b /\ Matches(l[a]) /\ Matches(l[b])) => l[a] # l[b]

\* the (version, name) groups of the files of a listing
GroupKeys(l) == {keyOf(l[i].version, l[i].name) : i \in {j \in 1..Len(l) : Matches(l[j])}}

HasHalf(l, k, t) ==
    \E i \in 1..Len(l) : l[i].typ = t /\ keyOf(l[i].version, l[i].name) = k

Incomplete(l) == \E k \in GroupKeys(l) : ~HasHalf(l, k, "up") \/ ~HasHalf(l, k, "down")

\* C21: scanning the listing of a directory (no two files of one name) ignores the
\* entries that do not match the filename pattern, fails exactly when, the whole
\* listing read, some (version, name) group lacks its up or its down file, and
\* otherwise returns exactly the groups of the matching files; the result, error or
\* pairs, is the same for every order of the listing's entries.
C21_DeferredValidation ==
    scanOut.err # "unset" =>
        /\ DistinctNames(files) =>
            /\ scanOut.err # "none" <=> Incomplete(files)
            /\ scanOut.err = "none" => scanOut.pairs = GroupKeys(files)
        /\ \A q \in Reorderings(files) : scan(q) = scanOut

\* a listing whose first group is completed by its last entry, with an ignored entry
\* and a group without its down file: the scan failed on the missing pair
C21_Witness ==
    /\ files = <<Entry(PairA.version, PairA.name, "up"), Entry(<<>>, <<>>, "none"),
                 Entry(PairC.version, PairC.name, "up"), Entry(PairA.version, PairA.name, "down")>>
    /\ scanOut.err = "missing"

\* the entries of the listing that are the t file of group k
HalvesOf(l, k, t) ==
    {i \in 1..Len(l) : l[i].typ = t /\ keyOf(l[i].version, l[i].name) = k}

HasDuplicate(l) ==
    \E k \in GroupKeys(l) : \E t \in {"up", "down"} : Cardinality(HalvesOf(l, k, t)) > 1

\* C22: a listing with two up files or two down files for one (version, name) makes
\* the scan fail with the duplicate error and return no pairs; a scan that succeeds
\* returns each (version, name) once, built from exactly one up and one down entry.
C22_DuplicateFails ==
    scanOut.err # "unset" =>
        /\ HasDuplicate(files) => scanOut.err = "duplicate" /\ scanOut.pairs = {}
        /\ scanOut.err = "none" =>
            \A k \in scanOut.pairs :
                Cardinality(HalvesOf(files, k, "up")) = 1
                    /\ Cardinality(HalvesOf(files, k, "down")) = 1

\* a complete pair followed by a second up file of the same group: the scan failed
C22_Witness ==
    /\ files = <<Entry(PairA.version, PairA.name, "up"), Entry(PairA.version, PairA.name, "down"),
                 Entry(PairA.version, PairA.name, "up")>>
    /\ scanOut.err = "duplicate"
    /\ scanOut.pairs = {}

\* version first, name second, both in Go's string order
VersionNameLess(x, y) ==
    StrLess(x.version, y.version) \/ (x.version = y.version /\ StrLess(x.name, y.name))

SortedPairs(s) == \A a, b \in 1..Len(s) : a < b => VersionNameLess(s[a], s[b])

\* C23: Plan.all holds every discovered pair once and Plan.pending every pair
\* without a success entry, both ordered by version first and name second (in the
\* string order of the code), whatever set of pairs the scan and whatever set of
\* rows the ledger read return; retried and never attempted changes stand in
\* pending in that one order.
C23_PlanOrder ==
    planOut.err = "none" =>
        /\ SeqRange(planOut.plan.all) = source
        /\ Len(planOut.plan.all) = Cardinality(source)
        /\ SortedPairs(planOut.plan.all)
        /\ SortedPairs(planOut.plan.pending)
        /\ SeqRange(planOut.plan.pending) = {fp \in source : ~SuccessRowFor(fp)}

\* a never attempted 1_a, a failed 1_b to retry and a never attempted 10_a are
\* pending in this order, 2_a is applied
C23_Witness ==
    /\ planOut.err = "none"
    /\ Len(planOut.plan.all) = 4
    /\ planOut.plan.pending = <<FilePair(PairA, "aa"), FilePair(PairB, "aa"), FilePair(PairD, "aa")>>
    /\ \E r \in ledger : KeyOfRec(r) = KeyOfRec(PairB) /\ r.status = "failed"
    /\ \A r \in ledger : KeyOfRec(r) \in {KeyOfRec(PairB), KeyOfRec(PairC)}

RECURSIVE NumOf(_)
\* the number an all-digit string denotes
NumOf(v) ==
    IF v = <<>> THEN 0
    ELSE NumOf(SubSeq(v, 1, Len(v) - 1)) * 10 + (v[Len(v)] - 48)

\* C24: the order in which the plan lists the discovered pairs agrees with the
\* numeric value of their all-digit versions, versions of different numbers of
\* digits included: a pair never stands before a pair of a smaller version number.
C24_NumericOrder ==
    planOut.err = "none" =>
        \A a, b \in 1..Len(planOut.plan.all) :
            a < b => NumOf(planOut.plan.all[a].version) <= NumOf(planOut.plan.all[b].version)

\* C25: a discovered change is pending exactly when the ledger holds no success
\* entry for it, also when changes of later versions are recorded as success; and
\* every entry an up writes has an execution order above that of every entry the
\* ledger held when the up planned, the success entries of later versions included.
C25_OutOfOrder ==
    \A p \in Procs :
        /\ pc[p] = "planned" =>
            \A j \in 1..Len(plan[p].all) :
                plan[p].all[j] \in SeqRange(plan[p].pending) <=> ~SuccessRowFor(plan[p].all[j])
        /\ (UpStarted(p) /\ ~inv[p].dry) =>
            \A r1 \in ledger \ PlannedRows(p), r2 \in PlannedRows(p) : r1.order > r2.order

\* 2_a was applied with order 1 before 1_a existed; an up has then applied 1_a with
\* order 2
C25_Witness ==
    /\ pc["p1"] = "done"
    /\ inv["p1"].name = "up"
    /\ ret["p1"].code = exitOK
    /\ plan["p1"].pending = <<FilePair(PairA, "aa")>>
    /\ \E r \in PlannedRows("p1") : KeyOfRec(r) = KeyOfRec(PairC) /\ r.status = "success" /\ r.order = 1
    /\ \E r \in ledger : KeyOfRec(r) = KeyOfRec(PairA) /\ r.status = "success" /\ r.order = 2

\* the changes whose forward script is committed while the ledger has no success
\* entry for them
Unrecorded ==
    {k \in AllKeys : schema[k] >= 1 /\ ~\E r \in ledger : KeyOfRec(r) = k /\ r.status = "success"}

\* every change an up has committed earlier in its run has its success entry
EarlierRecorded ==
    \A p \in Procs :
        (UpStarted(p) /\ ~inv[p].dry) =>
            \A j \in 1..(loc[p].i - 1) :
                j <= Len(plan[p].pending) => SuccessRowFor(plan[p].pending[j])

\* a change gets committed without a success entry only by the commit of its
\* script, and an up leaves it so only by dying between that commit and the Upsert
OnlyInWindow ==
    /\ \A k \in Unrecorded' \ Unrecorded :
            \E p \in Procs : /\ pc[p] \in {"upLoop", "forceLoop"}
                             /\ pc'[p] \in {"upCommitted", "forceCommitted"}
    /\ \A p \in Procs :
            (pc[p] = "upCommitted" /\ KeyOfRec(plan[p].pending[loc[p].i]) \in Unrecorded') =>
                pc'[p] \in {"upCommitted", "idle"}

\* the changes whose forward script this invocation of p has committed
CommittedBy(p) ==
    {log[p][a].key : a \in {b \in 1..Len(log[p]) : log[p][b].op = "execup" /\ log[p][b].ok}}

KindOf(err) ==
    CASE err = "discover" -> "discovery"
      [] err = "drift" -> "drift"
      [] err = "lock" -> "lock"
      [] err \in {"script", "exec", "commit"} -> "execution"
      [] err = "plan" -> "plan"
      [] OTHER -> "other"

\* the error kind each exit code is named after
KindOfCode(code) ==
    CASE code = exitDrift -> "drift"
      [] code = exitLocked -> "lock"
      [] code = exitFail -> "execution"
      [] code = exitPlanError -> "plan"
      [] OTHER -> "none"

\* C27: an invocation that ends with a discovery error, a drift error, a lock
\* timeout, an execution error or another plan error exits with a code that no
\* other of these kinds exits with: the code is the one of its own kind or a code
\* of none of them.
C27_DistinctExitCodes ==
    \A p \in Procs :
        (pc[p] = "done" /\ KindOf(ret[p].err) # "other") =>
            KindOfCode(ret[p].code) \in {KindOf(ret[p].err), "none"}

\* C28: an invocation that ends with a discovery error has not interacted with the
\* database: it has not requested the advisory lock and has read nothing from the
\* ledger.
C28_DiscoveryBeforeDatabase ==
    \A p \in Procs :
        (pc[p] = "done" /\ ret[p].err = "discover") =>
            /\ ~held[p]
            /\ dbLock # p
            /\ log[p] = <<>>

ScriptOps == {"execup", "execdown"}

\* C29: an invocation of up, down, repair or force with --dry-run executes no
\* script and performs no Upsert and no Delete: the ledger is what it was when the
\* invocation planned.
C29_DryRunFrame ==
    \A p \in Procs :
        (inv[p].dry /\ inv[p].name \in {"up", "down", "repair", "force"}
                    /\ pc[p] \notin {"idle", "ensured", "locked"}) =>
            /\ \A a \in 1..Len(log[p]) : log[p][a].op \notin ScriptOps \cup {"upsert", "delete"}
            /\ (ret[p].err \notin {"plan", "drift", "discover"} /\ pc[p] # "planned") =>
                    ledger = PlannedRows(p)

\* no script this invocation executed has failed
NoScriptFailed(p) ==
    \A a \in 1..Len(log[p]) : log[p][a].op = "execup" => log[p][a].ok

\* every discovered change of p's plan has its success entry in the ledger
AllRecorded(p) == SeqRange(plan[p].all) \subseteq SuccessEntries

\* C30: an up that has planned terminates; when none of its scripts failed (no
\* ledger write fails on this database) it ends with exit code 0 and a success
\* entry for every discovered change; and an up that runs when every discovered
\* change has its success entry, as right after such an up, finds nothing pending
\* and ends with exit code 0 having executed no script and written nothing.
C30_UpCompletes ==
    /\ [](\A p \in Procs :
            /\ (pc[p] = "done" /\ inv[p].name = "up" /\ ~inv[p].dry /\ NoScriptFailed(p)) =>
                    ret[p].code = exitOK /\ AllRecorded(p)
            /\ (inv[p].name = "up" /\ pc[p] \in UpPcs \cup {"done"}
                    /\ SeqRange(plan[p].all) \subseteq {FilePair(r, r.checksum) : r \in PlannedRows(p)}
                    /\ \A r \in PlannedRows(p) : r.status = "success") =>
                /\ plan[p].pending = <<>>
                /\ pc[p] \in {"planned", "done"}
                /\ \A a \in 1..Len(log[p]) : log[p][a].op \in {"getall"}
                /\ ledger = PlannedRows(p)
                /\ pc[p] = "done" => ret[p].code = exitOK)
    /\ \A p \in Procs : (inv[p].name = "up" /\ pc[p] = "planned") ~> (pc[p] = "done")

\* the first invocation was an up that recorded the three changes; the second, an
\* up too, has ended with nothing pending and only the ledger read in its log
C30_Witness ==
    /\ runs = 2
    /\ pc["p1"] = "done"
    /\ inv["p1"].name = "up"
    /\ ~inv["p1"].dry
    /\ plan["p1"].pending = <<>>
    /\ Len(plan["p1"].all) = 3
    /\ Len(log["p1"]) = 1
    /\ ret["p1"].code = exitOK
    /\ \A r \in ledger : r.by = "p1" /\ r.status = "success" /\ r.order \in 1..3
    /\ Cardinality(ledger) = 3

\* the last call was name, made on handle p
LastCall(p, name) == runs' = runs + 1 /\ pc'[p] = name

\* C31: Acquire on a handle that is held answers success without opening a
\* connection or asking for the lock, and the handle stays held; Acquire on a
\* handle that is not held opens a connection and, once it is open, asks for
\* the lock of the handle's key on it, and the handle is held exactly if the
\* lock was granted.
C31_AcquireIdempotent ==
    [][\A p \in Procs :
        LastCall(p, "acquire") =>
            IF held[p]
            THEN /\ held'[p]
                 /\ log'[p] = <<>>
                 /\ ret'[p].err = "none"
                 /\ conn' = conn
                 /\ named' = named
            ELSE /\ Len(log'[p]) >= 1
                 /\ log'[p][1].op = "conn"
                 /\ log'[p][1].ok =>
                        /\ Len(log'[p]) = 2
                        /\ log'[p][2] = Op("getlock", lockKey[p].key, held'[p])
                        /\ conn'[p] = IF held'[p] THEN "open" ELSE "closed"
                 /\ ~log'[p][1].ok => ~held'[p] /\ conn'[p] = "nil"
                 /\ held'[p] <=> ret'[p].err = "none"]_vars

\* a second Acquire on a held handle was answered without a statement, after
\* the other handle was acquired with a lock request of its own
C31_Witness ==
    \E p \in Procs : \E q \in Procs \ {p} :
        /\ pc[p] = "acquire" /\ held[p] /\ log[p] = <<>>
        /\ held[q] /\ Len(log[q]) = 2 /\ log[q][2] = Op("getlock", lockKey[q].key, TRUE)

\* C32: Release on a held handle leaves it not held with its connection
\* closed, whether or not RELEASE_LOCK succeeded, and answers success whenever
\* closing the connection did; a held handle always has an open connection;
\* Release on a handle that is not held issues no statement, changes nothing
\* and answers success.
C32_ReleaseBestEffort ==
    /\ [](\A p \in Procs : held[p] => conn[p] = "open")
    /\ [][\A p \in Procs :
            LastCall(p, "release") =>
                IF held[p]
                THEN /\ ~held'[p]
                     /\ conn'[p] = "closed"
                     /\ Len(log'[p]) = 2
                     /\ log'[p][1].op = "releaselock"
                     /\ log'[p][2].op = "close"
                     /\ log'[p][2].ok => ret'[p].err = "none"
                ELSE /\ log'[p] = <<>>
                     /\ ret'[p].err = "none"
                     /\ UNCHANGED <<held, conn, named>>]_vars

\* a Release whose RELEASE_LOCK failed has answered success
C32_Witness ==
    \E p \in Procs :
        /\ pc[p] = "release"
        /\ Len(log[p]) = 2
        /\ ~log[p][1].ok
        /\ ret[p].err = "none"
        /\ ~held[p]
        /\ conn[p] = "closed"

\* the handles p and q name the same database and the same ledger table
SameSet(p, q) ==
    lockKey[p].database = lockKey[q].database /\ lockKey[p].table = lockKey[q].table

\* C33: the key of a handle is "gomigratex:<database>:<table>" with the
\* database named by its DSN; two handles on the same database and ledger
\* table have the same key, are never held together, and an Acquire of one
\* while the other is held is refused; two handles on the same database with
\* different ledger tables have different keys, and when no statement fails an
\* Acquire is refused only while a handle of the same database and table holds
\* the lock.
C33_LockIdentity ==
    /\ [](/\ KeyFor(<<100, 98>>, <<116>>)
                = <<103, 111, 109, 105, 103, 114, 97, 116, 101, 120, 58, 100, 98, 58, 116>>
          /\ \A p \in Procs :
                lockKey[p].key = KeyPrefix \o <<Colon>> \o lockKey[p].database
                                           \o <<Colon>> \o lockKey[p].table
          /\ \A p \in Procs : \A q \in Procs \ {p} :
                /\ SameSet(p, q) => lockKey[p].key = lockKey[q].key /\ ~(held[p] /\ held[q])
                /\ (lockKey[p].database = lockKey[q].database
                        /\ lockKey[p].table # lockKey[q].table)
                      => lockKey[p].key # lockKey[q].key)
    /\ [][\A p \in Procs : \A q \in Procs \ {p} :
            (LastCall(p, "acquire") /\ ~held[p]) =>
                /\ (SameSet(p, q) /\ held[q]) => ~held'[p]
                /\ (~dbFaults /\ ~held'[p]) => SameSet(p, q) /\ named[lockKey[p].key] = q]_vars

\* both handles are held on one database with different ledger tables, and
\* the DSNs differ in their parameters
C33_Witness ==
    \E p \in Procs : \E q \in Procs \ {p} :
        /\ held[p] /\ held[q]
        /\ lockKey[p].database = lockKey[q].database
        /\ lockKey[p].table # lockKey[q].table
        /\ lockKey[p].dsn # lockKey[q].dsn

\* the value of a setting by the stated order: flag, environment, YAML, default
Precedence(flag, envGiven, envValue, yaml, default) ==
    IF flag.given THEN flag.value
    ELSE IF envGiven THEN envValue
    ELSE IF yaml.given THEN yaml.value
    ELSE default

\* C34: the migrations directory, the ledger table and the lock timeout run()
\* works with are those of the flag when it is given, otherwise of the
\* environment variable, otherwise of the YAML file, otherwise the default.
C34_Precedence ==
    config.merged =>
        LET g == config.given
        IN  /\ config.cfg.Dir
                 = Precedence(g.flags.dir, g.env.dir # "", g.env.dir, g.yaml.dir, "./migrations")
            /\ config.cfg.MigrationsTable
                 = Precedence(g.flags.table, g.env.table # "", g.env.table, g.yaml.table,
                              "schema_migrations")
            /\ LockTimeout(config.cfg)
                 = Precedence(g.flags.timeout, ~Atoi(g.env.timeout).err,
                              Atoi(g.env.timeout).i, g.yaml.timeout, 30)

\* the positions of run() inside the switch on the command word
ExecStates ==
    {"upLoop", "upFailed", "upCommitted", "downLoop", "downCommitted",
     "forceLoop", "forceCommitted", "repairLoop"}

\* the failure run() returned is that of step err with exit code code
Failed(p, errs, codes) ==
    pc'[p] = "done" /\ ret'[p].err \in errs /\ ret'[p].code \in codes

\* C35: an invocation that needs the database ensures the ledger table, then
\* acquires the lock, then plans, then executes its command: each step starts
\* from the success of the one before, a step that fails ends the invocation
\* with the exit code of that step and nothing of a later step done, the lock
\* is held from its acquisition to the return, and the return releases it.
C35_FixedOrder ==
    /\ [](\A p \in Procs :
            /\ pc[p] \in {"idle", "ensured"} => ~held[p] /\ dbLock # p /\ log[p] = <<>>
            /\ (pc[p] = "done" /\ ret[p].err \in {"ensure", "lock"})
                    => ~held[p] /\ dbLock # p /\ log[p] = <<>>
            /\ pc[p] \in {"locked", "planned"} \cup ExecStates => held[p] /\ dbLock = p
            /\ (pc[p] = "done" /\ ret[p].err \notin {"ensure", "lock"}) => held[p] /\ dbLock = p
            /\ pc[p] = "locked" => log[p] = <<>> /\ plan[p] = NoPlan
            /\ (pc[p] = "done" /\ ret[p].err \in {"discover", "plan", "drift"})
                    => plan[p] = NoPlan /\ \A i \in 1..Len(log[p]) : log[p][i].op = "getall")
    /\ [][\A p \in Procs :
            pc'[p] # pc[p] =>
                /\ pc[p] = "idle" => pc'[p] = "ensured" \/ Failed(p, {"ensure"}, {exitFail})
                /\ pc[p] = "ensured" => pc'[p] = "locked" \/ Failed(p, {"lock"}, {exitLocked})
                /\ pc[p] = "locked" =>
                        \/ pc'[p] = "planned"
                        \/ Failed(p, {"discover", "plan"}, {exitPlanError})
                        \/ Failed(p, {"drift"}, {exitDrift})
                /\ pc[p] \in {"planned"} \cup ExecStates => pc'[p] \in ExecStates \cup {"done"}
                /\ pc[p] = "done" => pc'[p] = "idle" /\ ~held'[p] /\ dbLock' # p]_vars

\* an invocation executes its command under the lock after an earlier one,
\* which committed a script under the lock, has returned and released it
C35_Witness ==
    \E q \in Procs :
        /\ pc[q] \in ExecStates
        /\ held[q] /\ dbLock = q
        /\ \A i \in 1..Len(log[q]) : log[q][i].op \in {"getall", "maxorder"}
        /\ \E k \in AllKeys : schema[k] >= 1
        /\ \A p \in Procs \ {q} : pc[p] = "idle"

\* the changes ApplyUp has attempted: those whose script it ran or, in a dry
\* run, those it listed
Attempts(p) ==
    IF inv[p].dry THEN Len(loc[p].applied)
    ELSE Cardinality({i \in 1..Len(log[p]) : log[p][i].op = "execup"})

IsPrefix(s, t) == Len(s) <= Len(t) /\ SubSeq(t, 1, Len(s)) = s

\* C36: the events ApplyUp delivers come in groups of two, one group per
\* attempted change in plan order: a start for the change, then one success or
\* error for the same change before the start of the next; an error is the last
\* event of the call; when ApplyUp has returned or is between two changes every
\* start has its closing event, and the call failed exactly if the last event
\* is an error.
C36_ProgressEvents ==
    /\ [](\A p \in Procs :
            LET e == events[p]
                n == Len(e)
            IN  /\ e # <<>> => inv[p].name = "up"
                /\ \A i \in 1..n :
                      /\ e[i].stage = (IF i % 2 = 1 THEN "start" ELSE e[i].stage)
                      /\ e[i].stage \in {"start", "success", "error"}
                      /\ i % 2 = 0 => e[i].stage # "start" /\ e[i].key = e[i - 1].key
                      /\ e[i].key = KeyOfRec(plan[p].pending[(i + 1) \div 2])
                      /\ e[i].stage = "error" => i = n
                /\ inv[p].name = "up" /\ pc[p] \in {"upLoop", "upFailed", "upCommitted", "done"}
                      => (n + 1) \div 2 = Attempts(p)
                /\ pc[p] \in {"upFailed", "upCommitted"} => n % 2 = 1
                /\ pc[p] \in {"upLoop", "done"} => n % 2 = 0
                /\ (pc[p] = "done" /\ n > 0) =>
                      (e[n].stage = "error" <=> ret[p].code = exitFail))
    /\ [][\A p \in Procs :
            \/ events'[p] = <<>>
            \/ /\ IsPrefix(events[p], events'[p])
               /\ (events[p] # <<>> /\ events[p][Len(events[p])].stage = "error")
                      => events'[p] = events[p]]_vars

\* an up has delivered start and success for one change, then start and error
\* for the next
C36_Witness ==
    \E p \in Procs :
        /\ pc[p] = "done"
        /\ Len(events[p]) = 4
        /\ events[p][2].stage = "success"
        /\ events[p][4].stage = "error"
        /\ events[p][3].key # events[p][1].key

\* C37: an up whose Upsert of a ledger row failed, the row recording a success
\* or a failure, returns the error of that Upsert.
C37_UpsertSurfaced ==
    \A p \in Procs :
        (/\ pc[p] = "done"
         /\ inv[p].name = "up"
         /\ \E i \in 1..Len(log[p]) : log[p][i].op = "upsert" /\ ~log[p][i].ok)
            => ret[p].err = "upsert"

\* the rows of the changes an up has executed, committed and recorded as
\* success in this call, in plan order
RecordedSoFar(p) ==
    SelectSeq([i \in 1..Len(plan[p].pending) |-> plan[p].pending[i]],
              LAMBDA fp : \E i \in 1..Len(log[p]) : \E j \in (i + 1)..Len(log[p]) :
                            /\ log[p][i] = Op("execup", KeyOfRec(fp), TRUE)
                            /\ log[p][j] = Op("upsert", KeyOfRec(fp), TRUE))

\* C38: an up that returns an error, whatever failed (BeginTx, the script, the
\* commit or the Upsert), returns with it the list of the changes it executed,
\* committed and recorded as success before, in plan order.
C38_AppliedOnError ==
    \A p \in Procs :
        (pc[p] = "done" /\ inv[p].name = "up" /\ ~inv[p].dry
            /\ ret[p].err \in {"begin", "script", "upsert"})
            => /\ Len(ret[p].applied) = Len(RecordedSoFar(p))
               /\ \A i \in 1..Len(ret[p].applied) :
                    KeyOfRec(ret[p].applied[i]) = KeyOfRec(RecordedSoFar(p)[i])

\* the ledger has a success entry for the change k
HasSuccess(k) == \E r \in ledger : KeyOfRec(r) = k /\ r.status = "success"

\* the forward script of k was committed and no backward script of k since
InEffect(k) == schema[k] >= 1

\* C39: on a database whose ledger writes do not fail, with no crash and no
\* force --fake, whenever an invocation has returned a change has a success
\* entry in the ledger exactly if its forward script is in effect.
C39_LedgerMatchesSchema ==
    pc["p1"] \in {"done", "idle"} => \A k \in AllKeys : HasSuccess(k) <=> InEffect(k)

\* a down has returned after reverting a change, while another change is
\* still in effect and recorded
C39_Witness ==
    /\ pc["p1"] = "done"
    /\ inv["p1"].name = "down"
    /\ reverted # {}
    /\ \E k \in AllKeys : InEffect(k) /\ HasSuccess(k)
    /\ \E k \in AllKeys : ~InEffect(k) /\ k \in reverted

\* the rows a force has upserted in this call, by the statements it issued
ForceRecorded(p) ==
    SelectSeq(log[p], LAMBDA op : op.op = "upsert" /\ op.ok)

\* C40: a force without --fake whose forward script fails to begin, execute or
\* commit returns at that change with exit code 4 and the rows it recorded
\* before, in order; the failing step changes neither the ledger nor the
\* schema, and the call has issued no ledger write for the failing change nor
\* any statement for a later one.
C40_ForceStopsWithoutEntry ==
    /\ [](\A p \in Procs :
            (pc[p] = "done" /\ inv[p].name = "force"
                /\ ret[p].err \in {"begin", "exec", "commit"}) =>
                LET fp == plan[p].all[loc[p].i]
                    n == Len(log[p])
                IN  /\ ~inv[p].fake
                    /\ ret[p].code = exitFail
                    /\ log[p][n] = Op("execup", KeyOfRec(fp), FALSE)
                    /\ Len(ret[p].applied) = Len(ForceRecorded(p))
                    /\ \A i \in 1..Len(ret[p].applied) :
                          KeyOfRec(ret[p].applied[i]) = ForceRecorded(p)[i].key
                    /\ \A i \in 1..n :
                          log[p][i].op = "upsert" =>
                              KeyLess(log[p][i].key, KeyOfRec(fp))
                    /\ \A i \in 1..n : \A j \in (loc[p].i + 1)..Len(plan[p].all) :
                          log[p][i].key # KeyOfRec(plan[p].all[j]))
    /\ [][\A p \in Procs :
            (pc[p] = "forceLoop" /\ pc'[p] = "done"
                /\ ret'[p].err \in {"begin", "exec", "commit"}) =>
                /\ ledger' = ledger
                /\ schema' = schema
                /\ ret'[p].applied = loc[p].applied]_vars

\* a force without --fake has recorded one change and failed on the script of
\* the next, with a later change in the directory
C40_Witness ==
    \E p \in Procs :
        /\ pc[p] = "done"
        /\ inv[p].name = "force"
        /\ ret[p].err \in {"exec", "commit"}
        /\ Len(ret[p].applied) = 1
        /\ ~HasSuccess(KeyOfRec(plan[p].all[loc[p].i]))

====
